---- MODULE Spec2Model ----
(***************************************************************************)
(* Model of the WhatsApp agent's message pipeline (processMessage) and of  *)
(* the store operations it calls.  One pipeline run is started per inbound *)
(* webhook; runs interleave at every await.  Text values are sequences of  *)
(* tokens, so that toLowerCase, startsWith, includes, replace and join are *)
(* computed, not assumed.                                                  *)
(***************************************************************************)
EXTENDS Integers, Sequences, FiniteSets, TLC

\* ------------------------------------------------------------------ bounds

\* number of inbound webhooks (pipeline runs) of one behaviour
NumRuns == 2

\* number of injected failures of external calls in one behaviour
MaxFaults == 1

Runs == 1..NumRuns

\* ------------------------------------------------------------------ text

\* null / undefined of the source, kept apart from the empty string
Null == <<"<null>">>

EmptyStr == <<>>

\* JavaScript truthiness of an optional string: undefined, null and "" are falsy
Truthy(s) == s # Null /\ s # EmptyStr

\* a || b on optional strings
OrElse(a, b) == IF Truthy(a) THEN a ELSE b

LowerToken(t) ==
  CASE t = "CLEAR" -> "clear"
    [] t = "Clear" -> "clear"
    [] t = "IMAGE/" -> "image/"
    [] t = "AUDIO/" -> "audio/"
    [] t = "OGG" -> "ogg"
    [] t = "VOICE" -> "voice"
    [] OTHER -> t

\* String.prototype.toLowerCase
ToLowerCase(s) == [i \in DOMAIN s |-> LowerToken(s[i])]

\* String.prototype.startsWith
StartsWith(s, p) == Len(s) >= Len(p) /\ SubSeq(s, 1, Len(p)) = p

\* String.prototype.includes
Includes(s, p) == \E i \in 1..(Len(s) - Len(p) + 1) : SubSeq(s, i, i + Len(p) - 1) = p

\* String.prototype.replace(pattern, ""): removes the first occurrence only
RemoveFirst(s, p) ==
  IF Includes(s, p)
  THEN LET i == CHOOSE k \in 1..(Len(s) - Len(p) + 1) :
                  /\ SubSeq(s, k, k + Len(p) - 1) = p
                  /\ \A j \in 1..(k - 1) : SubSeq(s, j, j + Len(p) - 1) # p
       IN SubSeq(s, 1, i - 1) \o SubSeq(s, i + Len(p), Len(s))
  ELSE s

DigitValue(d) == CASE d = "0" -> 0 [] d = "1" -> 1 [] d = "2" -> 2 [] OTHER -> 0

RECURSIVE DecimalValue(_)
DecimalValue(s) ==
  IF s = <<>> THEN 0 ELSE 10 * DecimalValue(SubSeq(s, 1, Len(s) - 1)) + DigitValue(s[Len(s)])

\* parseInt(numMediaStr || "0", 10)
ParseNumMedia(numMediaStr) == DecimalValue(OrElse(numMediaStr, <<"0">>))

\* Array.prototype.join(", ")
RECURSIVE Join(_)
Join(labels) ==
  IF labels = <<>> THEN <<>>
  ELSE IF Len(labels) = 1 THEN <<labels[1]>>
  ELSE <<labels[1], ", ">> \o Join(Tail(labels))

\* ------------------------------------------------------------------ classifier

\* extractMessageData: the intake record built from the raw webhook body
extractMessageData(body) ==
  [ from             |-> RemoveFirst(body.From, <<"whatsapp:">>),
    body             |-> OrElse(body.Body, EmptyStr),
    hasMedia         |-> ParseNumMedia(body.NumMedia) > 0,
    mediaContentType |-> OrElse(body.MediaContentType0, Null),
    mediaTwilioUrl   |-> OrElse(body.MediaUrl0, Null),
    numMedia         |-> ParseNumMedia(body.NumMedia),
    profileName      |-> body.ProfileName,
    isFordwarded     |-> body.Forwarded ]

\* webhookData.mediaType?.toLowerCase() || "": the field the classifier reads
MediaTypeOf(webhookData) ==
  IF "mediaType" \in DOMAIN webhookData /\ Truthy(webhookData.mediaType)
  THEN ToLowerCase(webhookData.mediaType)
  ELSE EmptyStr

\* the classifier comparing the body with "clear" without folding its case
determineMessageTypeCaseSensitive(webhookData) ==
  IF ~webhookData.hasMedia
  THEN IF webhookData.body = <<"clear">> THEN "command" ELSE "text"
  ELSE LET mediaType == MediaTypeOf(webhookData) IN
       IF StartsWith(mediaType, <<"image/">>) THEN "image"
       ELSE IF \/ StartsWith(mediaType, <<"audio/">>)
               \/ Includes(mediaType, <<"ogg">>)
               \/ Includes(mediaType, <<"voice">>)
            THEN "audio"
            ELSE "text"

\* the classifier without the "voice" test of the audio rule
determineMessageTypeNoVoice(webhookData) ==
  IF ~webhookData.hasMedia
  THEN IF ToLowerCase(webhookData.body) = <<"clear">> THEN "command" ELSE "text"
  ELSE LET mediaType == MediaTypeOf(webhookData) IN
       IF StartsWith(mediaType, <<"image/">>) THEN "image"
       ELSE IF \/ StartsWith(mediaType, <<"audio/">>)
               \/ Includes(mediaType, <<"ogg">>)
            THEN "audio"
            ELSE "text"

determineMessageType(webhookData) ==
  IF ~webhookData.hasMedia
  THEN IF ToLowerCase(webhookData.body) = <<"clear">> THEN "command" ELSE "text"
  ELSE LET mediaType == MediaTypeOf(webhookData) IN
       IF StartsWith(mediaType, <<"image/">>) THEN "image"
       ELSE IF \/ StartsWith(mediaType, <<"audio/">>)
               \/ Includes(mediaType, <<"ogg">>)
               \/ Includes(mediaType, <<"voice">>)
            THEN "audio"
            ELSE "text"

\* ------------------------------------------------------------------ state

VARIABLES
  users,                \* table "users": sequence of rows, id = position
  messages,             \* table "messages": sequence of rows, id = position
  clock,                \* the store's time at the last write (millisecond resolution)
  faults,               \* failures of external calls injected so far
  webhooks,             \* the raw inbound webhook body of each run
  pc,                   \* the await each run is suspended at
  user,                 \* processMessage local: user
  content,              \* processMessage local: content
  moderation,           \* processMessage local: moderation
  userMessage,          \* processMessage local: userMessage (row id, 0 before)
  lastClearCommand,     \* getConversationHistory local (row id, 0 = null)
  conversationHistory,  \* processMessage local: conversationHistory (row ids)
  aiResponse,           \* processMessage local: aiResponse
  message,              \* hasNewerMessages local: message.createdAt (0 before)
  result,               \* what processMessage resolved with
  httpStatus,           \* per run: the HTTP status the webhook handler has sent (0: none)
  arg,                  \* the input of the function under evaluation
  out,                  \* << its value >> (<< >> before)
  calls,                \* per run: the external calls made so far, in order
  seen                  \* per run: number of rows in the store at the staleness count

vars == << users, messages, clock, faults, webhooks, pc, user, content, moderation,
           userMessage, lastClearCommand, conversationHistory, aiResponse, message,
           result, httpStatus, arg, out, calls, seen >>

storeVars == << users, messages, clock >>

\* what no step of a run changes: its webhook and the function evaluations
fixedVars == << webhooks, arg, out >>

\* what a run leaves to its caller: the resolved result and the HTTP response
outcome == << result, httpStatus >>

localVars == << user, content, moderation, userMessage, lastClearCommand,
                conversationHistory, aiResponse, message >>

\* ------------------------------------------------------------------ inputs

Phone1 == <<"+1">>

Phone2 == <<"+2">>

NoUser == [id |-> 0, phone |-> Null, name |-> Null, isBanned |-> FALSE]

NoModeration == [flagged |-> FALSE, categories |-> Null]

\* raw webhook bodies as Twilio posts them
Webhook(phone, text, numMedia, mediaType, mediaUrl) ==
  [ From |-> <<"whatsapp:">> \o phone, Body |-> text, NumMedia |-> numMedia,
    MediaContentType0 |-> mediaType, MediaUrl0 |-> mediaUrl,
    ProfileName |-> <<"Ann">>, Forwarded |-> FALSE ]

\* the inbound webhooks of a behaviour: a text and the reset keyword of one
\* user, and a voice note of a second user
Inbound ==
  << Webhook(Phone1, <<"hello">>, <<"0">>, Null, Null),
     Webhook(Phone1, <<"Clear">>, Null, Null, Null),
     Webhook(Phone2, EmptyStr, <<"1">>, <<"audio/", "ogg">>, <<"https://media/1">>) >>

\* runs are interchangeable: the webhooks of the runs, up to renaming the runs
Assignments(list) ==
  { [r \in Runs |-> list[idx[r]]] :
      idx \in { f \in [Runs -> DOMAIN list] : \A q, r \in Runs : q < r => f[q] <= f[r] } }

\* the users table before the first webhook: empty, or one known user and one
\* user an administrator has banned (banUser), or the first user banned
UserTables ==
  { <<>>,
    << [id |-> 1, phone |-> Phone1, name |-> <<"Ann">>, isBanned |-> FALSE],
       [id |-> 2, phone |-> Phone2, name |-> Null, isBanned |-> TRUE] >>,
    << [id |-> 1, phone |-> Phone1, name |-> <<"Ann">>, isBanned |-> TRUE] >> }

\* responses of the moderation capability: results[0].flagged and the
\* per-category booleans, in the capability's order
ModerationResponses ==
  { [flagged |-> FALSE,
     categories |-> << <<"harassment", FALSE>>, <<"hate", FALSE>>, <<"violence", FALSE>> >>],
    [flagged |-> TRUE,
     categories |-> << <<"harassment", FALSE>>, <<"hate", TRUE>>, <<"violence", TRUE>> >>] }

\* completion.choices[0]?.message?.content of the generation capability
Completions == { <<"reply">> }

\* ------------------------------------------------------------------ store

RowIds(rows) == 1..Len(rows)

\* prisma.user.findUnique({ where: { phone, name } }): an undefined name is no filter
FindUserRows(rows, phone, name) ==
  { i \in RowIds(rows) : rows[i].phone = phone /\ (name = Null \/ rows[i].name = name) }

\* a create in place of the upsert (find-then-create): a row is appended
\* whether or not the address is known
UpsertUserCreates(rows, phone, name) ==
  Append(rows, [id |-> Len(rows) + 1, phone |-> phone, name |-> name,
                isBanned |-> FALSE])

\* prisma.user.upsert({ where: { phone }, create: { phone, name }, update: { name } })
UpsertUser(rows, phone, name) ==
  IF \E i \in RowIds(rows) : rows[i].phone = phone
  THEN LET i == CHOOSE k \in RowIds(rows) : rows[k].phone = phone
       IN [rows EXCEPT ![i].name = IF name = Null THEN @ ELSE name]
  ELSE Append(rows, [id |-> Len(rows) + 1, phone |-> phone, name |-> name,
                     isBanned |-> FALSE])

\* prisma.message.create: the row appended by createMessage, createdAt = t
NewMessage(rows, t, r, userId, role, type, text, reason, url, hash, ctype, fwd) ==
  [ id |-> Len(rows) + 1, createdAt |-> t, userId |-> userId, role |-> role,
    type |-> type, content |-> text, isForwarded |-> fwd,
    moderationReason |-> reason, mediaTwilioUrl |-> url,
    mediaSha256Hash |-> hash, mediaContentType |-> ctype, run |-> r ]

\* the marker query without the userId filter
LastClearCommandsAnyUser(rows, userId) ==
  LET clears == { i \in RowIds(rows) : /\ rows[i].type = "command"
                                       /\ rows[i].content = <<"clear">> }
  IN { i \in clears : \A j \in clears : rows[j].createdAt <= rows[i].createdAt }

\* findFirst({ where: { userId, type: "command", content: "clear" },
\*             orderBy: { createdAt: "desc" } }): the rows it may return
LastClearCommands(rows, userId) ==
  LET clears == { i \in RowIds(rows) : /\ rows[i].userId = userId
                                       /\ rows[i].type = "command"
                                       /\ rows[i].content = <<"clear">> }
  IN { i \in clears : \A j \in clears : rows[j].createdAt <= rows[i].createdAt }

\* the history query without the rows rejected by moderation
HistoryRowsUnflagged(rows, userId, marker) ==
  { i \in RowIds(rows) : /\ rows[i].userId = userId
                         /\ rows[i].moderationReason = Null
                         /\ (marker # 0 => rows[i].createdAt > rows[marker].createdAt) }

\* the history query restricted to the user's own turns
HistoryRowsUserOnly(rows, userId, marker) ==
  { i \in RowIds(rows) : /\ rows[i].userId = userId
                         /\ rows[i].role = "user"
                         /\ (marker # 0 => rows[i].createdAt > rows[marker].createdAt) }

\* the history query with gte for gt: the marker itself is returned
HistoryRowsFromMarker(rows, userId, marker) ==
  { i \in RowIds(rows) : /\ rows[i].userId = userId
                         /\ (marker # 0 => rows[i].createdAt >= rows[marker].createdAt) }

\* findMany({ where: { userId, createdAt: marker ? { gt: marker.createdAt } : undefined } })
HistoryRows(rows, userId, marker) ==
  { i \in RowIds(rows) : /\ rows[i].userId = userId
                         /\ (marker # 0 => rows[i].createdAt > rows[marker].createdAt) }

IsAscending(rows, ids) ==
  \A i, j \in DOMAIN ids : i < j => rows[ids[i]].createdAt <= rows[ids[j]].createdAt

\* orderBy: { createdAt: "asc" }: every order of the rows the store may return
Ascending(rows, S) ==
  { ids \in [1..Cardinality(S) -> S] :
      /\ \A i, j \in DOMAIN ids : i # j => ids[i] # ids[j]
      /\ IsAscending(rows, ids) }

\* the count with the comparison the wrong way round (lt for gt)
NewerMessageCountOlder(rows, userId, createdAt) ==
  Cardinality({ i \in RowIds(rows) : /\ rows[i].userId = userId
                                     /\ rows[i].role = "user"
                                     /\ rows[i].createdAt < createdAt })

\* the count with a comparison that is not strict (gte for gt)
NewerMessageCountNotStrict(rows, userId, createdAt) ==
  Cardinality({ i \in RowIds(rows) : /\ rows[i].userId = userId
                                     /\ rows[i].role = "user"
                                     /\ rows[i].createdAt >= createdAt })

\* the count over the wrong role (assistant rows instead of user rows)
NewerMessageCountAssistant(rows, userId, createdAt) ==
  Cardinality({ i \in RowIds(rows) : /\ rows[i].userId = userId
                                     /\ rows[i].role = "assistant"
                                     /\ rows[i].createdAt > createdAt })

\* getConversationHistory on a store no write lands on between its two
\* queries: the entries of every result it may return
Windows(rows, userId) ==
  LET found == LastClearCommands(rows, userId) IN
  { HistoryRows(rows, userId, marker) : marker \in (IF found = {} THEN {0} ELSE found) }

\* count({ where: { userId, role: "user", createdAt: { gt: createdAt } } })
NewerMessageCount(rows, userId, createdAt) ==
  Cardinality({ i \in RowIds(rows) : /\ rows[i].userId = userId
                                     /\ rows[i].role = "user"
                                     /\ rows[i].createdAt > createdAt })

\* ------------------------------------------------------------------ pipeline

messageData(r) == extractMessageData(webhooks[r])

messageType(r) == determineMessageType(messageData(r))

\* no function is under evaluation
NoInput == [fn |-> "none", x |-> << >>]

\* the value of a function that has not been evaluated; << v >> once it has
NotEvaluated == << >>

\* the state before the first webhook is handled, for the webhooks of a list,
\* the users tables of a set and the function inputs of a set
InitWith(list, tables, inputs) ==
  /\ users \in tables
  /\ messages = <<>>
  /\ clock = 0
  /\ faults = 0
  /\ webhooks \in Assignments(list)
  /\ pc = [r \in Runs |-> "idle"]
  /\ user = [r \in Runs |-> NoUser]
  /\ content = [r \in Runs |-> EmptyStr]
  /\ moderation = [r \in Runs |-> NoModeration]
  /\ userMessage = [r \in Runs |-> 0]
  /\ lastClearCommand = [r \in Runs |-> 0]
  /\ conversationHistory = [r \in Runs |-> <<>>]
  /\ aiResponse = [r \in Runs |-> Null]
  /\ message = [r \in Runs |-> 0]
  /\ result = [r \in Runs |-> "pending"]
  /\ httpStatus = [r \in Runs |-> 0]
  /\ arg \in inputs
  /\ out = NotEvaluated
  /\ calls = [r \in Runs |-> <<>>]
  /\ seen = [r \in Runs |-> 0]

Init == InitWith(Inbound, UserTables, {NoInput})

\* the run records an external call and its outcome
Called(r, op, info, ok) ==
  calls' = [calls EXCEPT ![r] = Append(@, [op |-> op, info |-> info, ok |-> ok])]

\* an external call of run r fails: the await rejects
Fails(r, op, info) ==
  /\ faults < MaxFaults
  /\ faults' = faults + 1
  /\ Called(r, op, info, FALSE)

Succeeds(r, op, info) ==
  /\ faults' = faults
  /\ Called(r, op, info, TRUE)

Goto(r, label) == pc' = [pc EXCEPT ![r] = label]

\* processMessage's return: the promise resolves with the result, and the
\* webhook handler, which awaited it, sends the 200 in its finally block
Return(r, res) ==
  /\ Goto(r, "done")
  /\ result' = [result EXCEPT ![r] = res]
  /\ httpStatus' = [httpStatus EXCEPT ![r] = 200]

\* a rejected await inside the try block: control moves to the catch block,
\* which awaits the error notice
Throw(r, op, info) ==
  /\ Fails(r, op, info)
  /\ Goto(r, "errorSend")
  /\ UNCHANGED << storeVars, fixedVars, localVars, outcome, seen >>

\* the webhook handler calls processMessage(req.body): extractMessageData and
\* determineMessageType run, then findOrCreateUser awaits findUnique
Receive(r) ==
  /\ pc[r] = "idle"
  /\ Goto(r, "findUnique")
  /\ UNCHANGED << storeVars, faults, fixedVars, localVars, outcome, calls, seen >>

\* processMessage with the command branch ahead of the ban check
WithUserCommandFirst(r, u) ==
  /\ user' = [user EXCEPT ![r] = u]
  /\ IF messageType(r) = "command" /\ ToLowerCase(messageData(r).body) = <<"clear">>
     THEN Goto(r, "commandCreate") /\ UNCHANGED << content, outcome >>
     ELSE IF u.isBanned
          THEN Return(r, "Banned") /\ UNCHANGED content
          ELSE /\ UNCHANGED outcome
               /\ content' = [content EXCEPT ![r] = OrElse(messageData(r).body, EmptyStr)]
               /\ IF messageData(r).hasMedia /\ Truthy(messageData(r).mediaTwilioUrl)
                  THEN Goto(r, "downloadMedia")
                  ELSE Goto(r, "moderate")

\* processMessage from the resolved user to its next await
WithUser(r, u) ==
  /\ user' = [user EXCEPT ![r] = u]
  /\ IF u.isBanned
     THEN Return(r, "Banned") /\ UNCHANGED content
     ELSE /\ UNCHANGED outcome
          /\ IF messageType(r) = "command" /\ ToLowerCase(messageData(r).body) = <<"clear">>
             THEN Goto(r, "commandCreate") /\ UNCHANGED content
             ELSE /\ content' = [content EXCEPT ![r] = OrElse(messageData(r).body, EmptyStr)]
                  /\ IF messageData(r).hasMedia /\ Truthy(messageData(r).mediaTwilioUrl)
                     THEN Goto(r, "downloadMedia")
                     ELSE Goto(r, "moderate")

\* findOrCreateUser: prisma.user.findUnique
FindUnique(r) ==
  /\ pc[r] = "findUnique"
  /\ \/ LET found == FindUserRows(users, messageData(r).from, messageData(r).profileName) IN
        /\ Succeeds(r, "user.findUnique", "")
        /\ IF found # {}
           THEN WithUser(r, users[CHOOSE i \in found : TRUE])
           ELSE Goto(r, "upsert") /\ UNCHANGED << user, content, outcome >>
        /\ UNCHANGED << storeVars, fixedVars, moderation, userMessage, lastClearCommand,
                        conversationHistory, aiResponse, message, seen >>
     \/ Throw(r, "user.findUnique", "")

\* findOrCreateUser: prisma.user.upsert
Upsert(r) ==
  /\ pc[r] = "upsert"
  /\ \/ LET rows == UpsertUser(users, messageData(r).from, messageData(r).profileName)
            i == CHOOSE k \in RowIds(rows) : rows[k].phone = messageData(r).from IN
        /\ Succeeds(r, "user.upsert", "")
        /\ users' = rows
        /\ WithUser(r, rows[i])
        /\ UNCHANGED << messages, clock, fixedVars, moderation, userMessage,
                        lastClearCommand, conversationHistory, aiResponse, message, seen >>
     \/ Throw(r, "user.upsert", "")

\* createMessage: prisma.message.create appends one row stamped with the
\* store's current time, which never runs backwards: the same millisecond as
\* the previous write or a later one
\* a createMessage that updates the row the run has already written, if any
CreateOrUpdate(r, info, role, type, text, reason, url, hash, ctype, fwd) ==
  \E t \in (IF messages = <<>> THEN {clock + 1} ELSE {clock, clock + 1}) :
    /\ clock' = t
    /\ messages' =
         IF \E i \in DOMAIN messages : messages[i].run = r
         THEN LET i == CHOOSE i \in DOMAIN messages : messages[i].run = r
              IN [messages EXCEPT ![i] = [@ EXCEPT !.role = role, !.type = type,
                                                   !.content = text,
                                                   !.moderationReason = reason]]
         ELSE Append(messages,
                NewMessage(messages, t, r, user[r].id, role, type, text, reason, url, hash,
                           ctype, fwd))
    /\ Succeeds(r, "createMessage", info)
    /\ UNCHANGED users

Create(r, info, role, type, text, reason, url, hash, ctype, fwd) ==
  \E t \in (IF messages = <<>> THEN {clock + 1} ELSE {clock, clock + 1}) :
    /\ clock' = t
    /\ messages' = Append(messages,
         NewMessage(messages, t, r, user[r].id, role, type, text, reason, url, hash,
                    ctype, fwd))
    /\ Succeeds(r, "createMessage", info)
    /\ UNCHANGED users

\* sendWhatsAppMessage: resolves with success or with the error, never rejects
Send(r, info) ==
  \/ Succeeds(r, "send", info)
  \/ Fails(r, "send", info)

\* the "clear" command: createMessage
CommandCreate(r) ==
  /\ pc[r] = "commandCreate"
  /\ \/ /\ Create(r, "command", "user", "command", <<"clear">>, Null, Null, Null, Null, FALSE)
        /\ Goto(r, "commandSend")
        /\ UNCHANGED << fixedVars, localVars, outcome, seen >>
     \/ Throw(r, "createMessage", "command")

\* an acknowledgment gated by a staleness check of the command row
CommandSendGated(r) ==
  /\ pc[r] = "commandSend"
  /\ LET own == CHOOSE i \in RowIds(messages) : messages[i].run = r IN
     IF NewerMessageCount(messages, user[r].id, messages[own].createdAt) > 0
     THEN Succeeds(r, "stale.count", "") /\ Return(r, "Suppressed")
     ELSE Send(r, "acknowledgment") /\ Return(r, "CommandHandled")
  /\ UNCHANGED << storeVars, fixedVars, localVars, seen >>

\* the "clear" command: the acknowledgment, then return { success: true }
CommandSend(r) ==
  /\ pc[r] = "commandSend"
  /\ Send(r, "acknowledgment")
  /\ Return(r, "CommandHandled")
  /\ UNCHANGED << storeVars, fixedVars, localVars, seen >>

\* a media fetch whose failure is swallowed: the run goes on without the media
DownloadMediaFailSoft(r) ==
  /\ pc[r] = "downloadMedia"
  /\ \/ /\ Succeeds(r, "downloadMedia", "")
        /\ IF messageType(r) = "audio" THEN Goto(r, "transcribe") ELSE Goto(r, "moderate")
     \/ /\ Fails(r, "downloadMedia", "")
        /\ Goto(r, "moderate")
  /\ UNCHANGED << storeVars, fixedVars, localVars, outcome, seen >>

\* twilioService.downloadMedia, then the content hash
DownloadMedia(r) ==
  /\ pc[r] = "downloadMedia"
  /\ \/ /\ Succeeds(r, "downloadMedia", "")
        /\ IF messageType(r) = "audio" THEN Goto(r, "transcribe") ELSE Goto(r, "moderate")
        /\ UNCHANGED << storeVars, fixedVars, localVars, outcome, seen >>
     \/ Throw(r, "downloadMedia", "")

\* openaiService.transcribeAudio replaces the content by the transcript
TranscribeAudio(r) ==
  /\ pc[r] = "transcribe"
  /\ \/ /\ Succeeds(r, "transcribeAudio", "")
        /\ content' = [content EXCEPT ![r] = <<"transcript">>]
        /\ Goto(r, "moderate")
        /\ UNCHANGED << storeVars, fixedVars, user, moderation, userMessage,
                        lastClearCommand, conversationHistory, aiResponse, message,
                        outcome, seen >>
     \/ Throw(r, "transcribeAudio", "")

\* the labels of Object.entries(results.categories) whose value is true
FlaggedCategories(categories) ==
  LET flaggedOnes == SelectSeq(categories, LAMBDA c : c[2])
  IN [i \in DOMAIN flaggedOnes |-> flaggedOnes[i][1]]

\* a moderateContent that fails closed: an error of the capability is a flag
moderateContentFailClosed(ok, response) ==
  IF ok
  THEN IF response.flagged
       THEN [flagged |-> TRUE, categories |-> FlaggedCategories(response.categories)]
       ELSE [flagged |-> FALSE, categories |-> Null]
  ELSE [flagged |-> TRUE, categories |-> << >>]

\* a moderateContent that reports every response as unflagged
moderateContentNeverFlags(ok, response) == [flagged |-> FALSE, categories |-> Null]

\* moderateContent: the verdict for a response of the capability, or for its error
moderateContent(ok, response) ==
  IF ok
  THEN IF response.flagged
       THEN [flagged |-> TRUE, categories |-> FlaggedCategories(response.categories)]
       ELSE [flagged |-> FALSE, categories |-> Null]
  ELSE [flagged |-> FALSE, categories |-> Null]

\* moderation.categories?.join(", ")
ModerationReason(verdict) ==
  IF verdict.categories = Null THEN Null ELSE Join(verdict.categories)

\* the media hash the run holds once it downloaded the attachment
MediaHash(r) ==
  IF messageData(r).hasMedia /\ Truthy(messageData(r).mediaTwilioUrl)
  THEN <<"sha256">> ELSE Null

\* openaiService.moderateContent(content)
Moderate(r) ==
  /\ pc[r] = "moderate"
  /\ \E response \in ModerationResponses :
       \/ /\ Succeeds(r, "moderate", IF response.flagged THEN "flagged" ELSE "unflagged")
          /\ moderation' = [moderation EXCEPT ![r] = moderateContent(TRUE, response)]
          /\ IF moderation'[r].flagged
             THEN Goto(r, "flaggedCreate")
             ELSE Goto(r, "inboundCreate")
       \/ /\ Fails(r, "moderate", "")
          /\ moderation' = [moderation EXCEPT ![r] = moderateContent(FALSE, response)]
          /\ IF moderation'[r].flagged
             THEN Goto(r, "flaggedCreate")
             ELSE Goto(r, "inboundCreate")
  /\ UNCHANGED << storeVars, fixedVars, user, content, userMessage, lastClearCommand,
                  conversationHistory, aiResponse, message, outcome, seen >>

\* flagged content: createMessage with the moderation reason
FlaggedCreate(r) ==
  /\ pc[r] = "flaggedCreate"
  /\ \/ /\ Create(r, "flagged", "user", messageType(r), content[r],
                  ModerationReason(moderation[r]), messageData(r).mediaTwilioUrl,
                  MediaHash(r), messageData(r).mediaContentType,
                  messageData(r).isFordwarded)
        /\ Goto(r, "flaggedSend")
        /\ UNCHANGED << fixedVars, localVars, outcome, seen >>
     \/ Throw(r, "createMessage", "flagged")

\* a flagged branch without its return: after the rejection the run falls
\* through to the persistence of the inbound message
FlaggedSendFallsThrough(r) ==
  /\ pc[r] = "flaggedSend"
  /\ Send(r, "rejection")
  /\ Goto(r, "inboundCreate")
  /\ result' = [result EXCEPT ![r] = "Rejected"]
  /\ UNCHANGED httpStatus
  /\ UNCHANGED << storeVars, fixedVars, localVars, seen >>

\* a rejection whose failed send is thrown into the catch block
FlaggedSendThrows(r) ==
  /\ pc[r] = "flaggedSend"
  /\ \/ Succeeds(r, "send", "rejection") /\ Return(r, "Rejected")
     \/ Fails(r, "send", "rejection") /\ Goto(r, "errorSend") /\ UNCHANGED outcome
  /\ UNCHANGED << storeVars, fixedVars, localVars, seen >>

\* flagged content: the rejection text, then return { success: false }
FlaggedSend(r) ==
  /\ pc[r] = "flaggedSend"
  /\ Send(r, "rejection")
  /\ Return(r, "Rejected")
  /\ UNCHANGED << storeVars, fixedVars, localVars, seen >>

\* createMessage of the inbound user message
InboundCreate(r) ==
  /\ pc[r] = "inboundCreate"
  /\ \/ /\ Create(r, "inbound", "user", messageType(r), content[r], Null,
                  messageData(r).mediaTwilioUrl, MediaHash(r), Null,
                  messageData(r).isFordwarded)
        /\ userMessage' = [userMessage EXCEPT ![r] = Len(messages')]
        /\ Goto(r, "historyFindFirst")
        /\ UNCHANGED << fixedVars, user, content, moderation, lastClearCommand,
                        conversationHistory, aiResponse, message, outcome, seen >>
     \/ Throw(r, "createMessage", "inbound")

\* getConversationHistory: findFirst of the most recent "clear" command
HistoryFindFirst(r) ==
  /\ pc[r] = "historyFindFirst"
  /\ \/ /\ Succeeds(r, "history.findFirst", "")
        /\ LET found == LastClearCommands(messages, user[r].id) IN
           \E marker \in (IF found = {} THEN {0} ELSE found) :
             lastClearCommand' = [lastClearCommand EXCEPT ![r] = marker]
        /\ Goto(r, "historyFindMany")
        /\ UNCHANGED << storeVars, fixedVars, user, content, moderation, userMessage,
                        conversationHistory, aiResponse, message, outcome, seen >>
     \/ Throw(r, "history.findFirst", "")

\* a history query that fails open: a failed findMany gives an empty history
HistoryFindManyFailOpen(r) ==
  /\ pc[r] = "historyFindMany"
  /\ \/ /\ Succeeds(r, "history.findMany", "")
        /\ \E ids \in Ascending(messages,
                                HistoryRows(messages, user[r].id, lastClearCommand[r])) :
             conversationHistory' = [conversationHistory EXCEPT ![r] = ids]
     \/ /\ Fails(r, "history.findMany", "")
        /\ conversationHistory' = [conversationHistory EXCEPT ![r] = << >>]
  /\ Goto(r, "getPrompt")
  /\ UNCHANGED << storeVars, fixedVars, user, content, moderation, userMessage,
                  lastClearCommand, aiResponse, message, outcome, seen >>

\* getConversationHistory: findMany of the rows after the marker
HistoryFindMany(r) ==
  /\ pc[r] = "historyFindMany"
  /\ \/ /\ Succeeds(r, "history.findMany", "")
        /\ \E ids \in Ascending(messages,
                                HistoryRows(messages, user[r].id, lastClearCommand[r])) :
             conversationHistory' = [conversationHistory EXCEPT ![r] = ids]
        /\ Goto(r, "getPrompt")
        /\ UNCHANGED << storeVars, fixedVars, user, content, moderation, userMessage,
                        lastClearCommand, aiResponse, message, outcome, seen >>
     \/ Throw(r, "history.findMany", "")

\* getChatCompletion: langfuseClient.getPrompt
GetPrompt(r) ==
  /\ pc[r] = "getPrompt"
  /\ \/ /\ Succeeds(r, "getPrompt", "")
        /\ Goto(r, "completion")
        /\ UNCHANGED << storeVars, fixedVars, localVars, outcome, seen >>
     \/ Throw(r, "getPrompt", "")

\* a getChatCompletion that calls the capability again when it fails
CompletionRetries(r) ==
  /\ pc[r] = "completion"
  /\ \/ /\ Succeeds(r, "completion", "")
        /\ \E text \in Completions :
             aiResponse' = [aiResponse EXCEPT ![r] = OrElse(text, EmptyStr)]
        /\ Goto(r, "staleFindUnique")
     \/ /\ Fails(r, "completion", "")
        /\ UNCHANGED << aiResponse, pc >>
  /\ UNCHANGED << storeVars, fixedVars, user, content, moderation, userMessage,
                  lastClearCommand, conversationHistory, message, outcome, seen >>

\* a getChatCompletion that answers "" when the capability fails
CompletionFailSoft(r) ==
  /\ pc[r] = "completion"
  /\ \/ /\ Succeeds(r, "completion", "")
        /\ \E text \in Completions :
             aiResponse' = [aiResponse EXCEPT ![r] = OrElse(text, EmptyStr)]
     \/ /\ Fails(r, "completion", "")
        /\ aiResponse' = [aiResponse EXCEPT ![r] = EmptyStr]
  /\ Goto(r, "staleFindUnique")
  /\ UNCHANGED << storeVars, fixedVars, user, content, moderation, userMessage,
                  lastClearCommand, conversationHistory, message, outcome, seen >>

\* getChatCompletion: chat.completions.create.  A response without choices or
\* content (counted among the failures of a behaviour) gives "".
Completion(r) ==
  /\ pc[r] = "completion"
  /\ \/ /\ \/ /\ Succeeds(r, "completion", "")
              /\ \E text \in Completions :
                   aiResponse' = [aiResponse EXCEPT ![r] = OrElse(text, EmptyStr)]
           \/ /\ faults < MaxFaults
              /\ faults' = faults + 1
              /\ Called(r, "completion", "empty", TRUE)
              /\ aiResponse' = [aiResponse EXCEPT ![r] = OrElse(Null, EmptyStr)]
        /\ Goto(r, "staleFindUnique")
        /\ UNCHANGED << storeVars, fixedVars, user, content, moderation, userMessage,
                        lastClearCommand, conversationHistory, message, outcome, seen >>
     \/ Throw(r, "completion", "")

\* hasNewerMessages: findUnique of the inbound row's createdAt; the catch block
\* of hasNewerMessages turns a failure into "false"
StaleFindUnique(r) ==
  /\ pc[r] = "staleFindUnique"
  /\ \/ /\ Succeeds(r, "stale.findUnique", "")
        /\ IF userMessage[r] \in RowIds(messages)
           THEN /\ message' = [message EXCEPT ![r] = messages[userMessage[r]].createdAt]
                /\ Goto(r, "staleCount")
           ELSE /\ UNCHANGED message
                /\ Goto(r, "assistantCreate")
     \/ /\ Fails(r, "stale.findUnique", "")
        /\ UNCHANGED message
        /\ Goto(r, "assistantCreate")
  /\ UNCHANGED << storeVars, fixedVars, user, content, moderation, userMessage,
                  lastClearCommand, conversationHistory, aiResponse, outcome, seen >>

\* a staleness check that waits while a newer message of the user is in the
\* store instead of returning
StaleCountWaits(r) ==
  /\ pc[r] = "staleCount"
  /\ \/ /\ NewerMessageCount(messages, user[r].id, message[r]) = 0
        /\ Succeeds(r, "stale.count", "")
        /\ seen' = [seen EXCEPT ![r] = Len(messages)]
        /\ Goto(r, "assistantCreate")
     \/ /\ Fails(r, "stale.count", "")
        /\ Goto(r, "assistantCreate")
        /\ UNCHANGED seen
  /\ UNCHANGED << storeVars, fixedVars, localVars, outcome >>

\* a staleness count that fails closed: a failed query reports stale
StaleCountFailClosed(r) ==
  /\ pc[r] = "staleCount"
  /\ \/ /\ Succeeds(r, "stale.count", "")
        /\ seen' = [seen EXCEPT ![r] = Len(messages)]
        /\ IF NewerMessageCount(messages, user[r].id, message[r]) > 0
           THEN Return(r, "Suppressed")
           ELSE Goto(r, "assistantCreate") /\ UNCHANGED outcome
     \/ /\ Fails(r, "stale.count", "")
        /\ Return(r, "Suppressed")
        /\ UNCHANGED seen
  /\ UNCHANGED << storeVars, fixedVars, localVars >>

\* hasNewerMessages: count of newer role-user rows, then processMessage's
\* "if (hasNewerMessages) return"
StaleCount(r) ==
  /\ pc[r] = "staleCount"
  /\ \/ /\ Succeeds(r, "stale.count", "")
        /\ seen' = [seen EXCEPT ![r] = Len(messages)]
        /\ IF NewerMessageCount(messages, user[r].id, message[r]) > 0
           THEN Return(r, "Suppressed")
           ELSE Goto(r, "assistantCreate") /\ UNCHANGED outcome
     \/ /\ Fails(r, "stale.count", "")
        /\ Goto(r, "assistantCreate")
        /\ UNCHANGED << outcome, seen >>
  /\ UNCHANGED << storeVars, fixedVars, localVars >>

\* createMessage of the assistant's reply
AssistantCreate(r) ==
  /\ pc[r] = "assistantCreate"
  /\ \/ /\ Create(r, "assistant", "assistant", "text", aiResponse[r], Null, Null, Null,
                  Null, FALSE)
        /\ Goto(r, "replySend")
        /\ UNCHANGED << fixedVars, localVars, outcome, seen >>
     \/ Throw(r, "createMessage", "assistant")

\* a send whose failure is thrown into the catch block instead of returned
ReplySendThrows(r) ==
  /\ pc[r] = "replySend"
  /\ \/ Succeeds(r, "send", "reply") /\ Return(r, "Dispatched")
     \/ Fails(r, "send", "reply") /\ Goto(r, "errorSend") /\ UNCHANGED outcome
  /\ UNCHANGED << storeVars, fixedVars, localVars, seen >>

\* sendWhatsAppMessage(user.phone, aiResponse), then return { success: true }
ReplySend(r) ==
  /\ pc[r] = "replySend"
  /\ Send(r, "reply")
  /\ Return(r, "Dispatched")
  /\ UNCHANGED << storeVars, fixedVars, localVars, seen >>

\* a catch block whose failed notice escapes: the promise of processMessage
\* rejects and the run has no result
ErrorSendRejects(r) ==
  /\ pc[r] = "errorSend"
  /\ \/ Succeeds(r, "send", "errorNotice") /\ Return(r, "Error")
     \/ /\ Called(r, "send", "errorNotice", FALSE)
        /\ Goto(r, "rejected")
        /\ UNCHANGED << faults, outcome >>
  /\ UNCHANGED << storeVars, fixedVars, localVars, seen >>

\* the catch block: the error notice, then return { success: false }.  The
\* notice may fail whatever failed before it (a second-level failure, not
\* counted among the faults of the try block).
ErrorSend(r) ==
  /\ pc[r] = "errorSend"
  /\ \/ Succeeds(r, "send", "errorNotice")
     \/ Called(r, "send", "errorNotice", FALSE) /\ UNCHANGED faults
  /\ Return(r, "Error")
  /\ UNCHANGED << storeVars, fixedVars, localVars, seen >>

Step(r) ==
  \/ Receive(r)
  \/ FindUnique(r)
  \/ Upsert(r)
  \/ CommandCreate(r)
  \/ CommandSend(r)
  \/ DownloadMedia(r)
  \/ Moderate(r)
  \/ FlaggedCreate(r)
  \/ FlaggedSend(r)
  \/ InboundCreate(r)
  \/ HistoryFindFirst(r)
  \/ HistoryFindMany(r)
  \/ GetPrompt(r)
  \/ Completion(r)
  \/ StaleFindUnique(r)
  \/ StaleCount(r)
  \/ AssistantCreate(r)
  \/ ReplySend(r)
  \/ ErrorSend(r)

Next == \E r \in Runs : Step(r)

Spec == Init /\ [][Next]_vars

\* the inbound webhooks of a behaviour with attachments: the reset keyword and
\* a document of one user, and a picture of a second user
MediaInbound ==
  << Webhook(Phone1, <<"Clear">>, <<"0">>, Null, Null),
     Webhook(Phone1, <<"see", " ", "file">>, <<"1">>, <<"application/", "pdf">>,
             <<"https://media/2">>),
     Webhook(Phone2, EmptyStr, <<"1">>, <<"image/", "png">>, <<"https://media/3">>) >>

MediaInit == InitWith(MediaInbound, UserTables, {NoInput})

MediaSpec == MediaInit /\ [][Next]_vars

\* every await of a run eventually resolves or rejects, and the event loop
\* then runs the continuation: a run that can take a step eventually takes one
Fairness == \A r \in Runs : WF_vars(Step(r))

FairSpec == Spec /\ Fairness

\* ------------------------------------------------------------------ functions

\* bodies of inbound messages: the reset keyword in three letter cases, with
\* surrounding blanks, inside a sentence, other text, "" and undefined
Bodies ==
  { <<"clear">>, <<"Clear">>, <<"CLEAR">>, <<" ", "clear">>, <<"Clear", " ">>,
    <<"clear", " ", "chat">>, <<"hello">>, EmptyStr, Null }

\* content-types of attachments: none, the documented families, members of
\* two families, upper case, and types of no family
ContentTypes ==
  { Null, EmptyStr, <<"image/", "png">>, <<"IMAGE/", "png">>, <<"audio/", "mpeg">>,
    <<"audio/", "ogg">>, <<"application/", "ogg">>, <<"x-", "voice">>,
    <<"image/", "ogg">>, <<"image/", "x-", "voice">>, <<"application/", "pdf">>,
    <<"video/", "mp4">> }

\* records handed to determineMessageType: the three fields it reads, and the
\* field extractMessageData stores the content-type under
ClassifierInputs ==
  [ hasMedia : BOOLEAN, body : Bodies, mediaType : ContentTypes,
    mediaContentType : { Null, <<"image/", "png">> } ]

\* the prefix of the text of a forwarded message
ForwardedMarker == << "FORWARDED MESSAGE:", "\n" >>

\* the turn of one window entry: parts is TRUE for a content of an image_url
\* part and a text part, FALSE for a content that is the text itself
FormatTurn(entry) ==
  LET role == IF entry.role = "user" THEN "user" ELSE "assistant"
      text == (IF entry.isForwarded THEN ForwardedMarker ELSE EmptyStr) \o entry.content
  IN IF entry.type = "image" /\ Truthy(entry.mediaUrl)
     THEN [role |-> role, parts |-> TRUE, image_url |-> entry.mediaUrl, text |-> text]
     ELSE [role |-> role, parts |-> FALSE, image_url |-> Null, text |-> text]

\* the loop over the window without the skip of system and command entries
RECURSIVE FormatAll(_)
FormatAll(window) ==
  IF window = << >> THEN << >>
  ELSE << FormatTurn(Head(window)) >> \o FormatAll(Tail(window))

\* the loop over the window: system and command entries are skipped
RECURSIVE FormatLoop(_)
FormatLoop(window) ==
  IF window = << >> THEN << >>
  ELSE IF Head(window).role = "system" \/ Head(window).type = "command"
       THEN FormatLoop(Tail(window))
       ELSE << FormatTurn(Head(window)) >> \o FormatLoop(Tail(window))

\* a formatter that turns every window entry into a turn
formatMessagesForOpenAIKeepsAll(window, systemPrompt) ==
  << [role |-> "system", parts |-> FALSE, image_url |-> Null, text |-> systemPrompt] >>
  \o FormatAll(window)

formatMessagesForOpenAI(window, systemPrompt) ==
  << [role |-> "system", parts |-> FALSE, image_url |-> Null, text |-> systemPrompt] >>
  \o FormatLoop(window)

\* conversationHistory.map(...): the window entries of the rows of a history
appMessages(rows, history) ==
  [ k \in DOMAIN history |->
      [ role |-> rows[history[k]].role,
        type |-> rows[history[k]].type,
        content |-> rows[history[k]].content,
        mediaUrl |-> rows[history[k]].mediaTwilioUrl,
        isForwarded |-> rows[history[k]].isForwarded ] ]

\* the messages of the generation request of getChatCompletion for a history
formattedMessages(rows, history) ==
  formatMessagesForOpenAI(appMessages(rows, history), <<"prompt">>)

\* the longest window given to the formatter
MaxWindow == 2

\* window entries as processMessage builds them from the rows of the history
AppMessages ==
  [ role : {"user", "assistant", "system"},
    type : {"text", "image", "command"},
    content : { <<"hi">> },
    mediaUrl : { Null, EmptyStr, <<"https://media/1">> },
    isForwarded : BOOLEAN ]

FormatWindows == UNION { [1..n -> AppMessages] : n \in 0..MaxWindow }

FormatInputs == [ messages : FormatWindows, systemPrompt : { <<"prompt">> } ]

\* every response of the moderation capability over three categories, and
\* whether the call resolves (ok) or rejects
ModerationInputs ==
  [ ok : BOOLEAN,
    response : { [flagged |-> f,
                  categories |-> << <<"harassment", a>>, <<"hate", b>>, <<"violence", c>> >>] :
                 f \in BOOLEAN, a \in BOOLEAN, b \in BOOLEAN, c \in BOOLEAN } ]

FunctionInputs ==
  { [fn |-> "determineMessageType", x |-> x] : x \in ClassifierInputs }
  \cup { [fn |-> "moderateContent", x |-> x] : x \in ModerationInputs }
  \cup { [fn |-> "formatMessagesForOpenAI", x |-> x] : x \in FormatInputs }

\* a call of determineMessageType on the input
Classify ==
  /\ arg.fn = "determineMessageType"
  /\ out = NotEvaluated
  /\ out' = << determineMessageType(arg.x) >>
  /\ UNCHANGED << storeVars, faults, webhooks, arg, pc, localVars, outcome, calls, seen >>

\* a call of moderateContent on a response, or on an error, of the capability
ModerateContent ==
  /\ arg.fn = "moderateContent"
  /\ out = NotEvaluated
  /\ out' = << moderateContent(arg.x.ok, arg.x.response) >>
  /\ UNCHANGED << storeVars, faults, webhooks, arg, pc, localVars, outcome, calls, seen >>

\* a call of formatMessagesForOpenAI on a window and a system prompt
Format ==
  /\ arg.fn = "formatMessagesForOpenAI"
  /\ out = NotEvaluated
  /\ out' = << formatMessagesForOpenAI(arg.x.messages, arg.x.systemPrompt) >>
  /\ UNCHANGED << storeVars, faults, webhooks, arg, pc, localVars, outcome, calls, seen >>

FunctionInit == InitWith(<< Inbound[1] >>, { << >> }, FunctionInputs)

FunctionNext ==
  \/ Classify
  \/ ModerateContent
  \/ Format

\* the functions of the services, each applied to one input
FunctionSpec == FunctionInit /\ [][FunctionNext]_vars

\* ------------------------------------------------------------------ properties

\* the rows a run has persisted
RowsOf(r, role) == { i \in RowIds(messages) : messages[i].run = r /\ messages[i].role = role }

\* the positions in the run's calls of a call of that kind
CallsOf(r, op, info) ==
  { i \in DOMAIN calls[r] : calls[r][i].op = op /\ calls[r][i].info = info }

CallsTo(r, op) == { i \in DOMAIN calls[r] : calls[r][i].op = op }

\* a call of the run failed
Failed(r) == \E i \in DOMAIN calls[r] : ~calls[r][i].ok

\* row b is a role-user row of the same user that is newer than the inbound
\* row the run r has persisted
NewerThanInbound(b, r) ==
  /\ userMessage[r] # 0
  /\ messages[b].userId = messages[userMessage[r]].userId
  /\ messages[b].role = "user"
  /\ messages[b].createdAt > messages[userMessage[r]].createdAt

\* the staleness count of run r succeeded when row b was already persisted
CheckedAfter(r, b) == seen[r] > 0 /\ b <= seen[r]

\* C1: when the staleness check of a run executes, with its queries succeeding,
\* after a newer inbound message of the same user has been persisted, the check
\* reports stale: the run is suppressed, persists no assistant Message and
\* sends no generated reply.
C1_StaleAfterNewerIsSuppressed ==
  \A r \in Runs : \A b \in RowIds(messages) :
    (CheckedAfter(r, b) /\ NewerThanInbound(b, r))
      => /\ result[r] = "Suppressed"
         /\ RowsOf(r, "assistant") = {}
         /\ CallsOf(r, "send", "reply") = {}
         /\ CallsOf(r, "createMessage", "assistant") = {}

C1_Witness ==
  \E r \in Runs : \E b \in RowIds(messages) :
    /\ CheckedAfter(r, b)
    /\ NewerThanInbound(b, r)
    /\ messages[b].run # r
    /\ pc[r] = "done"

\* C2: no run persists or sends a generated reply at a moment when a newer
\* role-user message of the same user is already persisted.
C2_OnlyLatestAnswered ==
  [][ \A r \in Runs :
        ( \/ pc[r] = "assistantCreate" /\ pc'[r] = "replySend"
          \/ pc[r] = "replySend" /\ pc'[r] = "done" )
        => ~ \E b \in RowIds(messages) : NewerThanInbound(b, r) ]_vars

\* C3: two runs of one user can both pass the staleness check and both persist
\* and send a reply; when they do and the check of the run for the older
\* message succeeded, that check executed before the newer message was
\* persisted.
BothReplied(a, b) ==
  /\ a # b
  /\ userMessage[a] # 0
  /\ userMessage[b] # 0
  /\ NewerThanInbound(userMessage[b], a)
  /\ RowsOf(a, "assistant") # {}
  /\ RowsOf(b, "assistant") # {}
  /\ CallsOf(a, "send", "reply") # {}
  /\ CallsOf(b, "send", "reply") # {}

C3_BothReplyOnlyByRace ==
  \A a, b \in Runs :
    (BothReplied(a, b) /\ seen[a] > 0) => seen[a] < userMessage[b]

\* the interleaving: the check of a ran before b's inbound row was persisted,
\* a's assistant row was persisted after it, and both runs resolved with success
C3_Witness ==
  \E a, b \in Runs :
    /\ BothReplied(a, b)
    /\ seen[a] > 0
    /\ seen[a] < userMessage[b]
    /\ seen[b] > 0
    /\ \A i \in RowsOf(a, "assistant") : i > userMessage[b]
    /\ result[a] = "Dispatched"
    /\ result[b] = "Dispatched"
    /\ ~Failed(a)
    /\ ~Failed(b)

AllDone == \A r \in Runs : pc[r] = "done"

\* run q has persisted an inbound row that is newer than the one of run r
Fresher(q, r) == q # r /\ \E b \in RowsOf(q, "user") : NewerThanInbound(b, r)

\* row b is the newest role-user row of its user
Newest(b) ==
  ~ \E c \in RowIds(messages) : /\ messages[c].userId = messages[b].userId
                                /\ messages[c].role = "user"
                                /\ messages[c].createdAt > messages[b].createdAt

C5_PersistThenSend ==
  \A r \in Runs : \A i \in CallsOf(r, "send", "reply") :
    /\ \E j \in CallsOf(r, "createMessage", "assistant") : j < i /\ calls[r][j].ok
    /\ Cardinality(RowsOf(r, "assistant")) = 1
    /\ \A a \in RowsOf(r, "assistant") :
         /\ messages[a].type = "text"
         /\ messages[a].content = aiResponse[r]
         /\ messages[a].userId = user[r].id
    /\ CallsTo(r, "send") = {i}
    /\ i = Len(calls[r])
    /\ pc[r] = "done"
    /\ result[r] = "Dispatched"

\* a failed send of the reply, with the assistant row still in the store
C5_Witness ==
  \E r \in Runs : \E i \in CallsOf(r, "send", "reply") :
    /\ ~calls[r][i].ok
    /\ RowsOf(r, "assistant") # {}
    /\ AllDone

Range(seq) == { seq[k] : k \in DOMAIN seq }

\* the reset markers of a user in the store
ResetRows(rows, userId) ==
  { c \in RowIds(rows) : /\ rows[c].userId = userId
                         /\ rows[c].type = "command"
                         /\ rows[c].content = <<"clear">> }

HistoryFirstDone(r) == pc[r] = "historyFindFirst" /\ pc'[r] = "historyFindMany"

HistoryDone(r) == pc[r] = "historyFindMany" /\ pc'[r] = "getPrompt"

\* C6: getConversationHistory returns exactly the rows of the user whose
\* createdAt is strictly greater than that of the user's most recent reset
\* marker (the one its first query finds; all rows of the user when there is
\* none), each once, in ascending createdAt order, and no row of another user.
C6_HistoryIsWindow ==
  [][ \A r \in Runs :
        /\ HistoryFirstDone(r) =>
             LET resets == ResetRows(messages, user[r].id)
                 marker == lastClearCommand'[r] IN
             IF resets = {} THEN marker = 0
             ELSE /\ marker \in resets
                  /\ \A c \in resets : messages[c].createdAt <= messages[marker].createdAt
        /\ HistoryDone(r) =>
             LET h == conversationHistory'[r]
                 marker == lastClearCommand[r] IN
             /\ \A i \in RowIds(messages) :
                  i \in Range(h) <=>
                    /\ messages[i].userId = user[r].id
                    /\ (marker # 0 => messages[i].createdAt > messages[marker].createdAt)
             /\ Range(h) \subseteq RowIds(messages)
             /\ \A j, k \in DOMAIN h :
                  j < k => /\ h[j] # h[k]
                           /\ messages[h[j]].createdAt <= messages[h[k]].createdAt ]_vars

\* C6 as stated: the result is exactly the rows of the user after the user's
\* most recent reset marker in the store the query returns from.
C6_HistoryIsSnapshot ==
  [][ \A r \in Runs :
        HistoryDone(r) =>
          \A i \in RowIds(messages) :
            i \in Range(conversationHistory'[r]) <=>
              /\ messages[i].userId = user[r].id
              /\ \A c \in ResetRows(messages, user[r].id) :
                   messages[i].createdAt > messages[c].createdAt ]_vars

\* a window cut at a reset marker: rows of the user from before the marker
\* and the marker itself are left out, the run's own row is in
C6_Witness ==
  \E r \in Runs :
    /\ pc[r] = "getPrompt"
    /\ lastClearCommand[r] # 0
    /\ userMessage[r] \in Range(conversationHistory[r])
    /\ lastClearCommand[r] \notin Range(conversationHistory[r])

UserIds == { users[i].id : i \in RowIds(users) }

LastRow(rows) == rows[Len(rows)]

IsReset(row) == row.type = "command" /\ row.content = <<"clear">>

\* C7: on a store without a write in between, every result of the window query
\* has the same entries; appending a non-reset row keeps every entry of the
\* user's window, appending a reset row of the user empties it, and it is
\* empty until the next row is appended; the windows of the other users keep
\* their entries.
C7_WindowIdempotentMonotonic ==
  [][ messages' # messages =>
        \A u \in UserIds :
          /\ Cardinality(Windows(messages', u)) = 1
          /\ \A v \in Windows(messages, u) : \A w \in Windows(messages', u) :
               IF LastRow(messages').userId = u /\ IsReset(LastRow(messages'))
               THEN w = {}
               ELSE v \subseteq w ]_vars

\* a reset row has just emptied a window that had entries
C7_Witness ==
  /\ messages # <<>>
  /\ IsReset(LastRow(messages))
  /\ Windows(messages, LastRow(messages).userId) = { {} }
  /\ \E w \in Windows(SubSeq(messages, 1, Len(messages) - 1), LastRow(messages).userId) :
       w # {}

\* row i lies after every reset marker of its user
AfterLastReset(i) ==
  \A c \in ResetRows(messages, messages[i].userId) :
    messages[i].createdAt > messages[c].createdAt

\* C8: the window a run hands to generation holds every row of its user that
\* was committed before the history query and lies after the last reset
\* marker, in ascending time order: the earlier user turn, the assistant reply
\* to it once persisted, and the run's own inbound row.
C8_WindowHoldsCommitted ==
  [][ \A r \in Runs :
        HistoryDone(r) =>
          LET h == conversationHistory'[r] IN
          /\ \A i \in RowIds(messages) :
               (messages[i].userId = user[r].id /\ AfterLastReset(i)) => i \in Range(h)
          /\ AfterLastReset(userMessage[r]) => userMessage[r] \in Range(h)
          /\ \A j, k \in DOMAIN h :
               j < k => messages[h[j]].createdAt <= messages[h[k]].createdAt ]_vars

\* the second run's window: the first run's user turn, its assistant reply and
\* the run's own row, the first run having dispatched
C8_Witness ==
  \E r, q \in Runs :
    /\ r # q
    /\ pc[r] = "getPrompt"
    /\ result[q] = "Dispatched"
    /\ userMessage[q] # 0
    /\ RowsOf(q, "assistant") # {}
    /\ Len(conversationHistory[r]) = 3
    /\ conversationHistory[r][1] = userMessage[q]
    /\ conversationHistory[r][2] \in RowsOf(q, "assistant")
    /\ conversationHistory[r][3] = userMessage[r]

\* a call of the run threw into the catch block (a failed send is returned)
Threw(r) == \E i \in DOMAIN calls[r] : ~calls[r][i].ok /\ calls[r][i].op # "send"

\* the run made none of the calls from the history query to the staleness check
NoGenerationCalls(r) ==
  \A op \in {"history.findFirst", "history.findMany", "getPrompt", "completion",
             "stale.findUnique", "stale.count"} : CallsTo(r, op) = {}

\* the run's only send is its last call and is of that kind
OnlySend(r, info) ==
  /\ CallsTo(r, "send") = {Len(calls[r])}
  /\ CallsOf(r, "send", info) = {Len(calls[r])}

\* C9: for a known, non-banned user, no attachment and a body that is the reset
\* keyword in any letter case, the run persists one Message (role user, kind
\* command, content "clear"), sends the acknowledgment and resolves with
\* success, with no media fetch, moderation, history query, generation or
\* staleness check.
C9_ResetPath ==
  \A r \in Runs :
    ( /\ user[r].id # 0
      /\ ~user[r].isBanned
      /\ ParseNumMedia(webhooks[r].NumMedia) = 0
      /\ webhooks[r].Body \in { <<"clear">>, <<"Clear">>, <<"CLEAR">> } )
    => /\ NoGenerationCalls(r)
       /\ CallsTo(r, "downloadMedia") = {}
       /\ CallsTo(r, "transcribeAudio") = {}
       /\ CallsTo(r, "moderate") = {}
       /\ RowsOf(r, "assistant") = {}
       /\ \A i \in RowsOf(r, "user") :
            /\ messages[i].type = "command"
            /\ messages[i].content = <<"clear">>
            /\ messages[i].userId = user[r].id
       /\ pc[r] \in {"commandCreate", "commandSend", "errorSend", "done"}
       /\ (pc[r] = "done" /\ ~Threw(r))
            => /\ result[r] = "CommandHandled"
               /\ Cardinality(RowsOf(r, "user")) = 1
               /\ OnlySend(r, "acknowledgment")

\* a run for "Clear" has ended with success
C9_Witness ==
  \E r \in Runs :
    /\ webhooks[r].Body = <<"Clear">>
    /\ result[r] = "CommandHandled"
    /\ Cardinality(RowsOf(r, "user")) = 1
    /\ OnlySend(r, "acknowledgment")

\* C10: when the moderation capability flags the inbound content, the run
\* persists one Message (role user) whose moderationReason is the flagged
\* labels, sends the rejection text and ends in Rejected, with no history
\* query, generation, staleness check or assistant Message.
C10_RejectionPath ==
  \A r \in Runs :
    CallsOf(r, "moderate", "flagged") # {}
    => /\ NoGenerationCalls(r)
       /\ RowsOf(r, "assistant") = {}
       /\ CallsOf(r, "createMessage", "assistant") = {}
       /\ CallsOf(r, "createMessage", "inbound") = {}
       /\ \A i \in RowsOf(r, "user") :
            /\ messages[i].moderationReason = <<"hate", ", ", "violence">>
            /\ messages[i].content = content[r]
            /\ messages[i].userId = user[r].id
       /\ pc[r] \in {"flaggedCreate", "flaggedSend", "errorSend", "done"}
       /\ (pc[r] = "done" /\ ~Threw(r))
            => /\ result[r] = "Rejected"
               /\ Cardinality(RowsOf(r, "user")) = 1
               /\ OnlySend(r, "rejection")

\* a run has ended in Rejected with its row persisted
C10_Witness ==
  \E r \in Runs :
    /\ result[r] = "Rejected"
    /\ Cardinality(RowsOf(r, "user")) = 1
    /\ \A i \in RowsOf(r, "user") : messages[i].moderationReason # Null
    /\ OnlySend(r, "rejection")

\* the operations of the calls the run has made
OpsOf(r) == { calls[r][i].op : i \in DOMAIN calls[r] }

\* the rows the run has persisted
AllRowsOf(r) == { i \in RowIds(messages) : messages[i].run = r }

\* C11: when the looked-up user has the ban flag set, the run returns the
\* banned-user result right after the lookup: it persists no Message, calls no
\* media fetch, moderation or generation capability and sends nothing, whatever
\* the message kind, the reset command included.
C11_BannedIsIgnored ==
  \A r \in Runs :
    /\ user[r].isBanned
         => /\ pc[r] = "done"
            /\ result[r] = "Banned"
            /\ AllRowsOf(r) = {}
            /\ OpsOf(r) \subseteq {"user.findUnique", "user.upsert"}
            /\ \A i \in DOMAIN calls[r] : calls[r][i].ok
    /\ result[r] = "Banned" => user[r].isBanned

\* a banned user's reset command has been ignored
C11_Witness ==
  \E r \in Runs :
    /\ webhooks[r].Body = <<"Clear">>
    /\ user[r].isBanned
    /\ result[r] = "Banned"
    /\ OpsOf(r) = {"user.findUnique"}

\* the failed calls of the run whose rejection reaches the catch block of
\* processMessage (the others are caught where they are made)
Thrown(r) ==
  { i \in DOMAIN calls[r] :
      /\ ~calls[r][i].ok
      /\ calls[r][i].op \notin {"send", "moderate", "stale.findUnique", "stale.count"} }

\* the failed calls of the run to that operation
FailedCalls(r, op) == { i \in CallsTo(r, op) : ~calls[r][i].ok }

\* C12: when the moderation capability throws, moderateContent returns
\* flagged = false and the run continues as for unflagged content: the inbound
\* Message is persisted without a moderation reason, the history query and the
\* generation follow, and the moderation error never leads to Rejected or Error.
C12_ModerationFailsOpen ==
  \A r \in Runs :
    FailedCalls(r, "moderate") # {}
    => /\ moderation[r] = [flagged |-> FALSE, categories |-> Null]
       /\ pc[r] \notin {"moderate", "flaggedCreate", "flaggedSend"}
       /\ result[r] # "Rejected"
       /\ CallsOf(r, "send", "rejection") = {}
       /\ CallsOf(r, "createMessage", "flagged") = {}
       /\ \A i \in RowsOf(r, "user") :
            /\ messages[i].moderationReason = Null
            /\ messages[i].content = content[r]
       /\ Thrown(r) = {}
            => /\ pc[r] # "errorSend"
               /\ result[r] # "Error"
               /\ CallsOf(r, "send", "errorNotice") = {}
               /\ pc[r] # "inboundCreate"
                    => /\ userMessage[r] \in RowsOf(r, "user")
                       /\ CallsTo(r, "history.findFirst") # {} \/ pc[r] = "historyFindFirst"
               /\ pc[r] = "done"
                    => /\ result[r] \in {"Dispatched", "Suppressed"}
                       /\ CallsTo(r, "history.findMany") # {}
                       /\ CallsTo(r, "completion") # {}

\* a run whose moderation call failed has dispatched its reply
C12_Witness ==
  \E r \in Runs :
    /\ FailedCalls(r, "moderate") # {}
    /\ result[r] = "Dispatched"
    /\ userMessage[r] # 0
    /\ messages[userMessage[r]].moderationReason = Null

\* a store query of the run's staleness check failed
StalenessQueryFailed(r) ==
  FailedCalls(r, "stale.findUnique") \cup FailedCalls(r, "stale.count") # {}

\* C13: when a store query of the staleness check fails, the check reports not
\* stale and the run dispatches: the assistant Message is persisted and sent,
\* also when a newer user message exists; the run is never suppressed.
C13_StalenessFailsOpen ==
  \A r \in Runs :
    StalenessQueryFailed(r)
    => /\ result[r] # "Suppressed"
       /\ pc[r] \in {"assistantCreate", "replySend", "errorSend", "done"}
       /\ Thrown(r) = {}
            => /\ pc[r] # "errorSend"
               /\ result[r] # "Error"
               /\ pc[r] \in {"replySend", "done"}
                    => /\ Cardinality(RowsOf(r, "assistant")) = 1
                       /\ \A i \in RowsOf(r, "assistant") :
                            /\ messages[i].content = aiResponse[r]
                            /\ messages[i].userId = user[r].id
               /\ pc[r] = "done"
                    => /\ result[r] = "Dispatched"
                       /\ OnlySend(r, "reply")

\* a run whose staleness query failed has dispatched although a newer user
\* message was in the store before its assistant row
C13_Witness ==
  \E r \in Runs :
    /\ StalenessQueryFailed(r)
    /\ result[r] = "Dispatched"
    /\ \E b \in RowIds(messages) : \E a \in RowsOf(r, "assistant") :
         NewerThanInbound(b, r) /\ b < a

\* a query of the run's getConversationHistory failed
HistoryQueryFailed(r) ==
  FailedCalls(r, "history.findFirst") \cup FailedCalls(r, "history.findMany") # {}

\* C14 as stated: a failed history query does not end the run in Error and
\* does not trigger the error notice.
C14_HistoryFailsOpen ==
  \A r \in Runs :
    HistoryQueryFailed(r)
    => /\ pc[r] # "errorSend"
       /\ result[r] # "Error"
       /\ CallsOf(r, "send", "errorNotice") = {}

\* C14: when a query of the conversation history fails, the run ends in Error:
\* the inbound Message stays persisted, no generation call and no staleness
\* check is made, no assistant Message is persisted, and the error notice is
\* the run's one send.
C14_HistoryFailureIsFatal ==
  \A r \in Runs :
    HistoryQueryFailed(r)
    => /\ pc[r] \in {"errorSend", "done"}
       /\ \A op \in {"getPrompt", "completion", "stale.findUnique", "stale.count"} :
            CallsTo(r, op) = {}
       /\ RowsOf(r, "assistant") = {}
       /\ RowsOf(r, "user") = {userMessage[r]}
       /\ pc[r] = "errorSend" => CallsTo(r, "send") = {}
       /\ pc[r] = "done" => result[r] = "Error" /\ OnlySend(r, "errorNotice")

\* a run has ended in Error on a failed history query, its inbound row persisted
C14_Witness ==
  \E r \in Runs :
    /\ HistoryQueryFailed(r)
    /\ result[r] = "Error"
    /\ userMessage[r] \in RowsOf(r, "user")
    /\ OnlySend(r, "errorNotice")

\* the values processMessage resolves with
Results == {"Banned", "CommandHandled", "Rejected", "Suppressed", "Dispatched", "Error"}

\* C15: whatever external call fails, processMessage resolves with a result
\* and never rejects: a run that has not returned can take its next step, a
\* run has a result exactly when it has returned, a failure thrown in the try
\* block leads to the catch block and to the failure result, and a failed
\* error notice is swallowed, the run still returning the failure result.
C15_AlwaysResolves ==
  \A r \in Runs :
    /\ pc[r] # "done" => ENABLED Step(r)
    /\ pc[r] = "done" <=> result[r] \in Results
    /\ pc[r] # "done" => result[r] = "pending"
    /\ Thrown(r) # {}
         => /\ pc[r] \in {"errorSend", "done"}
            /\ pc[r] = "done" => result[r] = "Error" /\ OnlySend(r, "errorNotice")
    /\ FailedCalls(r, "send") # {} => pc[r] = "done"
    /\ result[r] = "Error" => Thrown(r) # {}

\* the error notice itself failed after a failed call, and the run has
\* returned its failure result
C15_Witness ==
  \E r \in Runs :
    /\ Thrown(r) # {}
    /\ \E i \in CallsOf(r, "send", "errorNotice") : ~calls[r][i].ok
    /\ pc[r] = "done"
    /\ result[r] = "Error"

\* a call of the run's getChatCompletion failed
GenerationFailed(r) ==
  FailedCalls(r, "getPrompt") \cup FailedCalls(r, "completion") # {}

\* what C16 says of a state: after a failed generation the run is in its catch
\* block or has ended in Error, with no staleness check, no assistant row, its
\* inbound row in the store and the error notice as its one send
GenerationFailureIsFatal(r) ==
  GenerationFailed(r)
  => /\ pc[r] \in {"errorSend", "done"}
     /\ CallsTo(r, "stale.findUnique") = {}
     /\ CallsTo(r, "stale.count") = {}
     /\ CallsOf(r, "createMessage", "assistant") = {}
     /\ RowsOf(r, "assistant") = {}
     /\ RowsOf(r, "user") = {userMessage[r]}
     /\ messages[userMessage[r]].content = content[r]
     /\ messages[userMessage[r]].moderationReason = Null
     /\ pc[r] = "errorSend" => CallsTo(r, "send") = {}
     /\ pc[r] = "done" => result[r] = "Error" /\ OnlySend(r, "errorNotice")

\* C16: when the generation capability fails, the run ends in Error: no
\* assistant Message is persisted, the staleness check is not run, the error
\* notice is sent once, and the persisted inbound Message of the run stays in
\* the store unchanged.
C16_GenerationFailureIsFatal ==
  [][ \A r \in Runs :
        /\ GenerationFailureIsFatal(r)'
        /\ userMessage[r] # 0
             => /\ userMessage'[r] = userMessage[r]
                /\ messages'[userMessage[r]] = messages[userMessage[r]] ]_vars

\* a run has ended in Error on a failed completion call, its inbound row kept
C16_Witness ==
  \E r \in Runs :
    /\ FailedCalls(r, "completion") # {}
    /\ result[r] = "Error"
    /\ userMessage[r] \in RowsOf(r, "user")
    /\ \E i \in CallsOf(r, "send", "errorNotice") : calls[r][i].ok

\* the run's media fetch or its transcription failed
MediaFailed(r) ==
  FailedCalls(r, "downloadMedia") \cup FailedCalls(r, "transcribeAudio") # {}

\* C17: when the media fetch (or the transcription) fails, the run ends in
\* Error without persisting any Message and without calling moderation, the
\* history query or generation; the fetch is made once and the error notice
\* is attempted once.
C17_MediaFailureIsFatal ==
  \A r \in Runs :
    /\ Cardinality(CallsTo(r, "downloadMedia")) <= 1
    /\ MediaFailed(r)
         => /\ pc[r] \in {"errorSend", "done"}
            /\ AllRowsOf(r) = {}
            /\ CallsTo(r, "createMessage") = {}
            /\ CallsTo(r, "moderate") = {}
            /\ NoGenerationCalls(r)
            /\ pc[r] = "errorSend" => CallsTo(r, "send") = {}
            /\ pc[r] = "done" => result[r] = "Error" /\ OnlySend(r, "errorNotice")

\* a run with an attachment has ended in Error on its failed media fetch
C17_Witness ==
  \E r \in Runs :
    /\ messageData(r).hasMedia
    /\ FailedCalls(r, "downloadMedia") # {}
    /\ result[r] = "Error"
    /\ AllRowsOf(r) = {}
    /\ OnlySend(r, "errorNotice")

\* C18: within one run the generation capability is invoked at most once, no
\* call is made twice, and no operation that failed is invoked again by the run.
C18_NoRetry ==
  \A r \in Runs :
    /\ Cardinality(CallsTo(r, "completion")) <= 1
    /\ Cardinality(CallsTo(r, "getPrompt")) <= 1
    /\ \A i, j \in DOMAIN calls[r] :
         i < j => /\ ~calls[r][i].ok => calls[r][j].op # calls[r][i].op
                  /\ ~ ( /\ calls[r][j].op = calls[r][i].op
                         /\ calls[r][j].info = calls[r][i].info )

\* a run whose one generation call failed has returned, after its error notice
C18_Witness ==
  \E r \in Runs :
    /\ pc[r] = "done"
    /\ Cardinality(CallsTo(r, "completion")) = 1
    /\ FailedCalls(r, "completion") = CallsTo(r, "completion")
    /\ Len(calls[r]) = 1 + CHOOSE i \in CallsTo(r, "completion") : TRUE

\* the run is past findOrCreateUser
LookedUp(r) == pc[r] \notin {"idle", "findUnique", "upsert"}

\* C19: findOrCreateUser is race-safe under concurrent first contact: there is
\* never more than one User row with an address, every run whose lookup calls
\* did not fail holds the row of its sender's address, and two runs of one
\* address hold the same user.
C19_OneUserPerAddress ==
  /\ \A i, j \in RowIds(users) : users[i].phone = users[j].phone => i = j
  /\ \A r \in Runs :
       (LookedUp(r) /\ FailedCalls(r, "user.findUnique") = {}
                    /\ FailedCalls(r, "user.upsert") = {})
       => /\ \E i \in RowIds(users) : /\ users[i].id = user[r].id
                                      /\ users[i].phone = messageData(r).from
          /\ user[r].phone = messageData(r).from
          /\ pc[r] = "errorSend" => Thrown(r) # {}
  /\ \A q, r \in Runs :
       (user[q].id # 0 /\ user[r].id # 0 /\ messageData(q).from = messageData(r).from)
       => user[q].id = user[r].id

\* two runs of one unknown address have both missed in findUnique and both
\* called the upsert; one row exists and both hold it
C19_Witness ==
  \E q, r \in Runs :
    /\ q # r
    /\ messageData(q).from = messageData(r).from
    /\ CallsTo(q, "user.upsert") # {} /\ CallsTo(r, "user.upsert") # {}
    /\ LookedUp(q) /\ LookedUp(r)
    /\ Len(users) = 1
    /\ user[q].id = 1 /\ user[r].id = 1

\* the steps of the state machine, in its order
Stages ==
  << "moderate", "createMessage/inbound", "history.findFirst", "history.findMany",
     "getPrompt", "completion", "stale.findUnique", "stale.count",
     "createMessage/assistant", "send/reply" >>

\* the stage of a call of a run (0: a call of no stage)
StageOf(call) ==
  LET name == IF call.op \in {"createMessage", "send"}
              THEN call.op \o "/" \o call.info ELSE call.op
  IN IF \E k \in DOMAIN Stages : Stages[k] = name
     THEN CHOOSE k \in DOMAIN Stages : Stages[k] = name
     ELSE 0

\* the calls of a run's log follow the order of the stages, and a stage is entered
\* right after the stage before it (the count of the staleness check, which
\* its own failed first query skips, excepted)
InOrder(log) ==
  LET staged == SelectSeq(log, LAMBDA c : StageOf(c) # 0) IN
  \A i \in DOMAIN staged :
    IF i = 1 THEN StageOf(staged[i]) = 1
    ELSE \/ StageOf(staged[i]) = StageOf(staged[i - 1]) + 1
         \/ StageOf(staged[i]) = 9 /\ StageOf(staged[i - 1]) = 7

\* the positions in the run's calls of the calls of stage k
StageCalls(r, k) == { i \in DOMAIN calls[r] : StageOf(calls[r][i]) = k }

\* C20: every run follows the order of the state machine (moderation, inbound
\* Message persisted, history query, generation, staleness check, reply
\* persisted, reply sent), and a run that has reached a terminal state makes
\* no further call, store write or send.
C20_StateMachineOrder ==
  [][ \A r \in Runs :
        /\ calls'[r] # calls[r] => InOrder(calls'[r])
        /\ result[r] # "pending"
             => /\ pc[r] = "done" /\ pc'[r] = "done"
                /\ result'[r] = result[r]
                /\ calls'[r] = calls[r]
                /\ \A i \in RowIds(messages') :
                     messages'[i].run = r => i \in AllRowsOf(r) ]_vars

\* a dispatched run has made the calls of every stage, and the other run has
\* written to the store after it
C20_Witness ==
  \E r \in Runs :
    /\ result[r] = "Dispatched"
    /\ \A k \in DOMAIN Stages : StageCalls(r, k) # {}
    /\ \E i \in RowIds(messages) : \A a \in AllRowsOf(r) : a < i

\* C21: when every external call eventually resolves or fails, every run
\* eventually returns one of the results, whatever the other runs do, and a
\* run that has not returned can always take its next step: it waits for no
\* other run.
C21_EveryRunEnds ==
  /\ \A r \in Runs : <>(pc[r] = "done" /\ result[r] \in Results)
  /\ [](\A r \in Runs : pc[r] # "done" => ENABLED Step(r))

\* both runs of one user have returned, one of them suppressed by the other's
\* message
C21_Witness ==
  /\ \A r \in Runs : pc[r] = "done" /\ result[r] \in Results
  /\ \A q, r \in Runs : webhooks[q].From = webhooks[r].From
  /\ \E r \in Runs : result[r] = "Suppressed"

\* C22: the webhook handler has sent the 200 before the run performs any
\* external I/O: a run that is past its start, or has made a call, has its
\* request acknowledged.
C22_AckBeforeIO ==
  \A r \in Runs :
    (pc[r] # "idle" \/ calls[r] # << >>) => httpStatus[r] = 200

\* String.prototype.trim on a body: leading and trailing blanks removed
RECURSIVE Trim(_)
Trim(s) ==
  IF s = Null \/ s = << >> THEN s
  ELSE IF Head(s) = " " THEN Trim(Tail(s))
  ELSE IF s[Len(s)] = " " THEN Trim(SubSeq(s, 1, Len(s) - 1))
  ELSE s

\* determineMessageType has been applied to the input
Classified == arg.fn = "determineMessageType" /\ out # NotEvaluated

\* the content-type of a classifier input, case-folded ("" when absent)
FoldedType(x) == IF Truthy(x.mediaType) THEN ToLowerCase(x.mediaType) ELSE EmptyStr

\* the kind the rules (a) to (e) give, with the body folded by a function
KindByRules(x, fold(_)) ==
  IF ~x.hasMedia /\ fold(x.body) = <<"clear">> THEN "command"
  ELSE IF ~x.hasMedia THEN "text"
  ELSE IF StartsWith(FoldedType(x), <<"image/">>) THEN "image"
  ELSE IF \/ StartsWith(FoldedType(x), <<"audio/">>)
          \/ Includes(FoldedType(x), <<"ogg">>)
          \/ Includes(FoldedType(x), <<"voice">>) THEN "audio"
  ELSE "text"

TrimAndFold(s) == ToLowerCase(Trim(s))

\* C23 as stated: the kind is the one the rules give on the trimmed,
\* case-folded body.
C23_KindByTrimmedBody ==
  Classified => out[1] = KindByRules(arg.x, TrimAndFold)

\* C23: the kind is the one the rules (a) to (e) give on the case-folded body,
\* not trimmed, and the case-folded content-type; it depends on the attachment
\* presence, the content-type and the body only.
C23_KindByRules ==
  Classified
  => /\ out[1] = KindByRules(arg.x, ToLowerCase)
     /\ out[1] = determineMessageType([ hasMedia |-> arg.x.hasMedia, body |-> arg.x.body,
                                     mediaType |-> arg.x.mediaType ])

\* the reset keyword with a leading blank and no attachment has been
\* classified as text
C23_Witness ==
  /\ Classified
  /\ ~arg.x.hasMedia
  /\ arg.x.body = <<" ", "clear">>
  /\ out = << "text" >>

\* the image rule and the audio rule of the classifier, on a folded
\* content-type
ImageRule(t) == StartsWith(t, <<"image/">>)
AudioRule(t) ==
  StartsWith(t, <<"audio/">>) \/ Includes(t, <<"ogg">>) \/ Includes(t, <<"voice">>)

\* the attachment-type checks evaluated in the other order: audio, then image
KindAudioFirst(x) ==
  IF AudioRule(FoldedType(x)) THEN "audio"
  ELSE IF ImageRule(FoldedType(x)) THEN "image"
  ELSE "text"

\* an attachment whose content-type is in one of the four families has been
\* classified
ClassifiedFamily ==
  /\ Classified
  /\ arg.x.hasMedia
  /\ ImageRule(FoldedType(arg.x)) \/ AudioRule(FoldedType(arg.x))

\* C24 as stated: for every content-type of the four families the kind is
\* the same when the audio check is evaluated before the image check.
C24_OrderIrrelevant ==
  ClassifiedFamily => out[1] = KindAudioFirst(arg.x)

\* C24: the order of the checks is irrelevant for every content-type that is
\* in the image family or in an audio family but not in both; a content-type
\* that begins with image/ and contains ogg or voice is image with the
\* checks in the order of the code and audio with the audio check first.
C24_OrderIrrelevantOutsideOverlap ==
  ClassifiedFamily
  => IF ImageRule(FoldedType(arg.x)) /\ AudioRule(FoldedType(arg.x))
     THEN out[1] = "image" /\ KindAudioFirst(arg.x) = "audio"
     ELSE out[1] = KindAudioFirst(arg.x)

\* an attachment whose content-type is in an audio family and not in the
\* image family has been classified as audio
C24_Witness ==
  /\ ClassifiedFamily
  /\ arg.x.mediaType \in { <<"audio/", "ogg">>, <<"x-", "voice">> }
  /\ out = << "audio" >>

\* the content-type of the attachment of a run, case-folded ("" when absent)
ContentTypeOf(r) ==
  IF Truthy(messageData(r).mediaContentType)
  THEN ToLowerCase(messageData(r).mediaContentType)
  ELSE EmptyStr

\* the inbound message of the run has an attachment whose content-type
\* matches neither the image rule nor the audio rule
FallbackAttachment(r) ==
  /\ messageData(r).hasMedia
  /\ ~ImageRule(ContentTypeOf(r))
  /\ ~AudioRule(ContentTypeOf(r))

\* C25 as stated: a run whose attachment falls back to text never calls the
\* media fetch.
C25_FallbackNotFetched ==
  \A r \in Runs : FallbackAttachment(r) => CallsTo(r, "downloadMedia") = {}

\* C25: the media fetch depends on the presence of an attachment with a
\* reference, not on the kind: a run that reaches moderation with such an
\* attachment, a fallback one included, has fetched it exactly once and with
\* success, and a run without attachment never calls the media fetch.
C25_AttachmentFetched ==
  \A r \in Runs :
    /\ ~messageData(r).hasMedia => CallsTo(r, "downloadMedia") = {}
    /\ ( /\ messageData(r).hasMedia
         /\ Truthy(messageData(r).mediaTwilioUrl)
         /\ CallsTo(r, "moderate") # {} )
         => /\ Cardinality(CallsTo(r, "downloadMedia")) = 1
            /\ FailedCalls(r, "downloadMedia") = {}
            /\ \A i \in CallsTo(r, "downloadMedia"), j \in CallsTo(r, "moderate") : i < j

\* a run whose attachment is a document (fallback to text) has fetched the
\* attachment and has gone on to moderation
C25_Witness ==
  \E r \in Runs :
    /\ FallbackAttachment(r)
    /\ messageType(r) = "text"
    /\ CallsTo(r, "downloadMedia") # {}
    /\ FailedCalls(r, "downloadMedia") = {}
    /\ CallsTo(r, "moderate") # {}

\* the rows a run has persisted for its inbound message
InboundRows(r) == { i \in RowsOf(r, "user") : messages[i].type # "command" }

\* C26: the kind of the persisted inbound Message follows the content-type of
\* the attachment end to end: image/* is persisted as image with its media
\* reference, audio/* as audio with the transcript as content.
C26_KindFollowsContentType ==
  \A r \in Runs :
    \A i \in InboundRows(r) :
      /\ ( messageData(r).hasMedia /\ StartsWith(ContentTypeOf(r), <<"image/">>) )
           => /\ messages[i].type = "image"
              /\ messages[i].mediaTwilioUrl = messageData(r).mediaTwilioUrl
      /\ ( messageData(r).hasMedia /\ StartsWith(ContentTypeOf(r), <<"audio/">>) )
           => /\ messages[i].type = "audio"
              /\ messages[i].content = <<"transcript">>
              /\ CallsTo(r, "transcribeAudio") # {}

\* the labels of the categories whose boolean is true, in the given order
RECURSIVE TrueLabels(_)
TrueLabels(categories) ==
  IF categories = << >> THEN << >>
  ELSE (IF Head(categories)[2] THEN << Head(categories)[1] >> ELSE << >>)
       \o TrueLabels(Tail(categories))

\* moderateContent has been applied to a successful response
Moderated == arg.fn = "moderateContent" /\ out # NotEvaluated /\ arg.x.ok

\* C27 as stated: on a successful response the verdict is the aggregate
\* verdict and the categories are the labels whose boolean is true, for
\* every response.
C27_CategoriesAlways ==
  Moderated
  => /\ out[1].flagged = arg.x.response.flagged
     /\ out[1].categories = TrueLabels(arg.x.response.categories)

\* C27: on a successful response the verdict is the aggregate verdict; when
\* it is true the categories are the labels whose boolean is true, in the
\* capability's order, and when it is false the result has no categories.
C27_CategoriesWhenFlagged ==
  Moderated
  => /\ out[1].flagged = arg.x.response.flagged
     /\ out[1].categories = IF arg.x.response.flagged
                            THEN TrueLabels(arg.x.response.categories)
                            ELSE Null

\* a flagged response with two true categories has been turned into a
\* verdict with these two labels
C27_Witness ==
  /\ Moderated
  /\ arg.x.response.flagged
  /\ out[1].categories = << "hate", "violence" >>

\* formatMessagesForOpenAI has been applied to the window
Formatted == arg.fn = "formatMessagesForOpenAI" /\ out # NotEvaluated

\* the window entries that are neither of role system nor of kind command
Kept(window) == SelectSeq(window, LAMBDA m : m.role # "system" /\ m.type # "command")

\* C28: the request is the system turn followed by one turn per window entry
\* that is neither of role system nor of kind command, in window order; role
\* user maps to user, any other role to assistant; an image entry with a
\* media reference carries the reference and the text, any other entry the
\* text alone; the text of a forwarded entry begins with the marker.
C28_RequestShape ==
  Formatted
  => LET request == out[1]
         kept == Kept(arg.x.messages)
     IN /\ Len(request) = 1 + Len(kept)
        /\ request[1].role = "system"
        /\ request[1].text = arg.x.systemPrompt
        /\ \A i \in DOMAIN kept :
             LET turn == request[i + 1] IN
             /\ turn.role = (IF kept[i].role = "user" THEN "user" ELSE "assistant")
             /\ turn.parts <=> (kept[i].type = "image" /\ kept[i].mediaUrl = <<"https://media/1">>)
             /\ turn.parts => turn.image_url = kept[i].mediaUrl
             /\ IF kept[i].isForwarded
                THEN turn.text = << "FORWARDED MESSAGE:", "\n" >> \o kept[i].content
                ELSE turn.text = kept[i].content

\* a window of a command entry and a forwarded image with a media reference
\* has been formatted into the system turn and one user turn
C28_Witness ==
  /\ Formatted
  /\ Len(arg.x.messages) = 2
  /\ arg.x.messages[1].type = "command"
  /\ arg.x.messages[2].type = "image"
  /\ arg.x.messages[2].role = "user"
  /\ arg.x.messages[2].isForwarded
  /\ arg.x.messages[2].mediaUrl = <<"https://media/1">>
  /\ Len(out[1]) = 2
  /\ out[1][2].parts

\* C29: the safety gate is applied to generated replies: before a run
\* persists or sends its reply, it has called the moderation capability on
\* the reply, after the generation call.
C29_RepliesAreModerated ==
  \A r \in Runs :
    \A i \in CallsOf(r, "createMessage", "assistant") \cup CallsOf(r, "send", "reply") :
      \E c \in CallsTo(r, "completion"), m \in CallsTo(r, "moderate") : c < m /\ m < i

\* C30: Messages are append-only: every step of every run, on every path,
\* leaves each stored Message as it is (role, kind, content and moderation
\* reason included) and removes none; the table only grows.
C30_AppendOnly ==
  [][ /\ Len(messages') >= Len(messages)
      /\ \A i \in DOMAIN messages : messages'[i] = messages[i] ]_vars

\* the rows of two interleaved runs are in the store, the run that wrote the
\* first row has ended in Error after the other run wrote the second
C30_Witness ==
  \E q, r \in Runs :
    /\ q # r
    /\ Len(messages) >= 2
    /\ messages[1].run = q
    /\ messages[2].run = r
    /\ result[q] = "Error"
    /\ AllRowsOf(q) = {1}

\* C31: a staleness check whose queries succeed reports stale exactly when
\* the store holds a row of the run's user with role user, of any kind, whose
\* createdAt is strictly greater than that of the run's inbound row; rows of
\* role assistant and rows of other users do not count.
C31_StaleIffNewerUserRow ==
  [][ \A r \in Runs :
        ( /\ pc[r] = "staleCount"
          /\ pc'[r] # "staleCount"
          /\ calls'[r][Len(calls'[r])].ok )
        => /\ pc'[r] \in {"done", "assistantCreate"}
           /\ (result'[r] = "Suppressed")
                <=> \E i \in DOMAIN messages :
                      /\ messages[i].userId = messages[userMessage[r]].userId
                      /\ messages[i].role = "user"
                      /\ messages[i].createdAt > messages[userMessage[r]].createdAt ]_vars

\* a run has been suppressed, with its queries succeeding, by a newer reset
\* command of its user
C31_Witness ==
  \E r \in Runs : \E b \in RowIds(messages) :
    /\ result[r] = "Suppressed"
    /\ NewerThanInbound(b, r)
    /\ messages[b].type = "command"
    /\ ~StalenessQueryFailed(r)

\* the inbound rows of two runs are rows of one user with the same createdAt
Tied(a, b) ==
  /\ a # b
  /\ userMessage[a] # 0
  /\ userMessage[b] # 0
  /\ messages[userMessage[a]].userId = messages[userMessage[b]].userId
  /\ messages[userMessage[a]].createdAt = messages[userMessage[b]].createdAt

\* C32: when the inbound rows of two runs of one user have the same
\* createdAt, neither counts as newer than the other: a run of the two is
\* suppressed only by a third, strictly newer row, and without one a run
\* that ends without a thrown failure has dispatched its reply.
C32_TieIsNotStale ==
  \A a, b \in Runs :
    Tied(a, b)
    => /\ ~NewerThanInbound(userMessage[b], a)
       /\ result[a] = "Suppressed"
            => \E c \in RowIds(messages) :
                 NewerThanInbound(c, a) /\ c \notin {userMessage[a], userMessage[b]}
       /\ ( /\ pc[a] = "done"
            /\ Thrown(a) = {}
            /\ ~ \E c \in RowIds(messages) : NewerThanInbound(c, a) )
            => /\ result[a] = "Dispatched"
               /\ RowsOf(a, "assistant") # {}
               /\ CallsOf(a, "send", "reply") # {}

\* two runs with tied inbound rows have both dispatched, each after a
\* staleness check that ran, with success, when both rows were in the store
C32_Witness ==
  \E a, b \in Runs :
    /\ Tied(a, b)
    /\ result[a] = "Dispatched"
    /\ result[b] = "Dispatched"
    /\ seen[a] >= userMessage[b]
    /\ seen[b] >= userMessage[a]
    /\ ~Failed(a)
    /\ ~Failed(b)

\* the rows of a user with a role
RowsOfUser(u, role) ==
  { i \in RowIds(messages) : messages[i].userId = u /\ messages[i].role = role }

\* the role-user rows of a user that are neither rejected nor commands
AnswerableRows(u) ==
  { i \in RowsOfUser(u, "user") :
      messages[i].moderationReason = Null /\ messages[i].type # "command" }

\* C33: a run persists at most one assistant Message, and only after its own
\* unflagged, non-command inbound Message; so a user never has more assistant
\* Messages than role-user Messages without moderation reason that are not
\* commands.
C33_OneReplyPerInbound ==
  /\ \A r \in Runs :
       /\ Cardinality(RowsOf(r, "assistant")) <= 1
       /\ \A a \in RowsOf(r, "assistant") :
            /\ userMessage[r] \in RowsOf(r, "user")
            /\ userMessage[r] < a
            /\ userMessage[r] \in AnswerableRows(messages[a].userId)
  /\ \A i \in RowIds(messages) :
       Cardinality(RowsOfUser(messages[i].userId, "assistant"))
         <= Cardinality(AnswerableRows(messages[i].userId))

\* a user has two answered inbound rows and two assistant rows, and every
\* run has ended
C33_Witness ==
  \E i \in RowIds(messages) :
    /\ Cardinality(RowsOfUser(messages[i].userId, "assistant")) = 2
    /\ Cardinality(AnswerableRows(messages[i].userId)) = 2
    /\ \A r \in Runs : pc[r] = "done"

\* the message a run sends for its result ("" for a result without a send)
SendOf(res) ==
  CASE res = "CommandHandled" -> "acknowledgment"
    [] res = "Rejected" -> "rejection"
    [] res = "Dispatched" -> "reply"
    [] res = "Error" -> "errorNotice"
    [] OTHER -> ""

\* C34: every run invokes the outbound send at most once; a run that has
\* ended has made exactly the send of its result (acknowledgment, rejection
\* text, generated reply or error notice) as its last call, and none for a
\* banned user or a suppressed reply; a failed send of the first three is not
\* followed by an error notice.
C34_AtMostOneSend ==
  \A r \in Runs :
    /\ Cardinality(CallsTo(r, "send")) <= 1
    /\ pc[r] = "done"
         => IF result[r] \in {"Banned", "Suppressed"}
            THEN CallsTo(r, "send") = {}
            ELSE OnlySend(r, SendOf(result[r]))
    /\ \A i \in FailedCalls(r, "send") :
         calls[r][i].info # "errorNotice"
           => /\ CallsOf(r, "send", "errorNotice") = {}
              /\ result[r] \notin {"Error", "pending"}

\* a run has ended as Rejected on a failed send of the rejection text, and
\* another run has ended without a send
C34_Witness ==
  \E q, r \in Runs :
    /\ result[r] = "Rejected"
    /\ FailedCalls(r, "send") # {}
    /\ Cardinality(CallsTo(r, "send")) = 1
    /\ result[q] \in {"Banned", "Suppressed"}
    /\ CallsTo(q, "send") = {}

\* the creation timestamps of the rows of every user are strictly increasing
StrictTimestamps ==
  \A i, j \in RowIds(messages) :
    (i < j /\ messages[i].userId = messages[j].userId)
      => messages[i].createdAt < messages[j].createdAt

\* the history query of the run has returned its window
WindowTaken(r) == \E i \in CallsTo(r, "history.findMany") : calls[r][i].ok

\* the rows of the window of the run
WindowOf(r) == { conversationHistory[r][i] : i \in DOMAIN conversationHistory[r] }

\* the window of the run holds its inbound row as the newest role-user row
OwnIsNewestInWindow(r) ==
  /\ userMessage[r] \in WindowOf(r)
  /\ \A b \in WindowOf(r) : ~NewerThanInbound(b, r)

\* the run has persisted or sent a generated reply
Replied(r) ==
  \/ RowsOf(r, "assistant") # {}
  \/ CallsOf(r, "createMessage", "assistant") # {}
  \/ CallsOf(r, "send", "reply") # {}

\* C35: with strictly increasing timestamps per user and staleness queries
\* that succeed, a run that persists or sends a generated reply generated it
\* from a window that holds its own inbound row as the newest role-user row;
\* a run whose window held a newer user row or lacked its own inbound row
\* never replies, and is suppressed when it ends without a thrown failure.
C35_DispatchedFromOwnWindow ==
  \A r \in Runs :
    (StrictTimestamps /\ ~StalenessQueryFailed(r) /\ WindowTaken(r))
    => /\ Replied(r) => OwnIsNewestInWindow(r)
       /\ ~OwnIsNewestInWindow(r)
            => /\ ~Replied(r)
               /\ result[r] \notin {"Dispatched", "Rejected", "CommandHandled", "Banned"}
               /\ (pc[r] = "done" /\ Thrown(r) = {}) => result[r] = "Suppressed"

\* a reset landed between the inbound row of a run and its history query:
\* the window lacks the inbound row and the run has been suppressed
C35_Witness ==
  \E r \in Runs :
    /\ StrictTimestamps
    /\ ~StalenessQueryFailed(r)
    /\ WindowTaken(r)
    /\ userMessage[r] \notin WindowOf(r)
    /\ result[r] = "Suppressed"

\* C36: every assistant Message that lies in the conversation window of its
\* user (after the user's most recent reset marker) is the reply to a user
\* Message that lies in the same window.
C36_RepliesStayInWindow ==
  \A a \in RowIds(messages) :
    (messages[a].role = "assistant" /\ AfterLastReset(a))
      => /\ userMessage[messages[a].run] # 0
         /\ AfterLastReset(userMessage[messages[a].run])

\* a role-user row persisted on the rejection path
RejectedRow(i) == messages[i].role = "user" /\ messages[i].moderationReason # Null

\* C37: the window is not filtered by moderation reason: when the history
\* query of a run returns, every rejected row of its user that lies after the
\* reset marker of the query is in the window, and the generation request
\* built from the window has a user turn with the content of that row; a
\* rejected row at or before the marker is not in the window.
C37_RejectedInWindow ==
  [][ \A r \in Runs :
        HistoryDone(r) =>
          LET h == conversationHistory'[r]
              marker == lastClearCommand[r]
              request == formattedMessages(messages, conversationHistory'[r])
          IN \A i \in RowIds(messages) :
               (RejectedRow(i) /\ messages[i].userId = user[r].id)
                 => IF marker = 0 \/ messages[i].createdAt > messages[marker].createdAt
                    THEN /\ i \in Range(h)
                         /\ \E k \in DOMAIN request :
                              /\ request[k].role = "user"
                              /\ request[k].text = messages[i].content
                              /\ k > 1
                    ELSE i \notin Range(h) ]_vars

\* the window of a run whose generation call has been made holds a row of
\* its user that another run persisted on the rejection path
C37_Witness ==
  \E r \in Runs : \E i \in WindowOf(r) :
    /\ RejectedRow(i)
    /\ messages[i].run # r
    /\ messages[i].userId = user[r].id
    /\ \E c \in CallsTo(r, "completion") : calls[r][c].ok
    /\ Len(formattedMessages(messages, conversationHistory[r])) = 3

\* the run makes a send with that message in this step
Sends(r, info) ==
  /\ Len(calls'[r]) = Len(calls[r]) + 1
  /\ calls'[r][Len(calls'[r])].op = "send"
  /\ calls'[r][Len(calls'[r])].info = info

\* the run has made a call of the staleness check
StalenessChecked(r) ==
  \E i \in DOMAIN calls[r] : calls[r][i].op \in {"stale.findUnique", "stale.count"}

\* C38: only the generated reply is gated by the staleness check: a run that
\* is to send the acknowledgment, the rejection text or the error notice
\* sends it as its next step whatever the store holds; the acknowledgment
\* and the rejection text are sent by runs that made no staleness check, the
\* error notice directly after the failed call, and the reply only by a run
\* that made the check.
C38_OnlyRepliesAreGated ==
  [][ \A r \in Runs :
        /\ (pc[r] \in {"commandSend", "flaggedSend", "errorSend"} /\ calls'[r] # calls[r])
             => /\ \E info \in {"acknowledgment", "rejection", "errorNotice"} : Sends(r, info)
                /\ pc'[r] = "done"
                /\ messages' = messages
        /\ (Sends(r, "acknowledgment") \/ Sends(r, "rejection")) => ~StalenessChecked(r)
        /\ Sends(r, "errorNotice") => ~calls[r][Len(calls[r])].ok
        /\ Sends(r, "reply") => StalenessChecked(r) ]_vars

\* a run has sent the error notice after a newer message of its user was
\* persisted: the newer row is in the window the run queried before it failed
C38_Witness ==
  \E r \in Runs : \E b \in WindowOf(r) :
    /\ NewerThanInbound(b, r)
    /\ result[r] = "Error"
    /\ CallsOf(r, "send", "errorNotice") # {}
    /\ ~StalenessChecked(r)

\* the result of the path on which a message is sent
ResultOf(info) ==
  CASE info = "acknowledgment" -> "CommandHandled"
    [] info = "rejection" -> "Rejected"
    [] info = "reply" -> "Dispatched"
    [] OTHER -> "Error"

\* C39: a failed send of the reply, the acknowledgment or the rejection text
\* is not thrown: the run ends at once with the result of its path, not with
\* Error, the row it persisted before the send stays in the store, and no
\* error notice is attempted.
C39_SendFailureIsNotAnError ==
  \A r \in Runs : \A i \in FailedCalls(r, "send") :
    calls[r][i].info # "errorNotice"
    => /\ pc[r] = "done"
       /\ result[r] = ResultOf(calls[r][i].info)
       /\ result[r] # "Error"
       /\ i = Len(calls[r])
       /\ calls[r][i - 1].op = "createMessage" /\ calls[r][i - 1].ok
       /\ AllRowsOf(r) # {}
       /\ calls[r][i].info = "reply" => Cardinality(RowsOf(r, "assistant")) = 1
       /\ CallsOf(r, "send", "errorNotice") = {}

\* the reply of a run was persisted and could not be delivered: the run has
\* returned the success result and no error notice has been attempted
C39_Witness ==
  \E r \in Runs :
    /\ FailedCalls(r, "send") = CallsOf(r, "send", "reply")
    /\ FailedCalls(r, "send") # {}
    /\ result[r] = "Dispatched"
    /\ Cardinality(RowsOf(r, "assistant")) = 1
    /\ CallsOf(r, "send", "errorNotice") = {}
    /\ httpStatus[r] = 200

====
